---- MODULE Spec2Model ----
(***************************************************************************)
(* A model of the PB (price-to-book) valuation pipeline of etf-info:       *)
(* the sqlite cache store (database.py) and the point-in-time join engine  *)
(* (stock_pbcal.py).                                                       *)
(*                                                                         *)
(* Dates are day numbers.  Floating point values are exact rationals       *)
(* [n, d] with d > 0, extended by NaN (0/0) and the infinities (1/0 and    *)
(* -1/0) that numpy's float64 division produces.                           *)
(***************************************************************************)
EXTENDS Integers, Sequences, FiniteSets, TLC

VARIABLES
    now,        \* wall clock, in days (datetime.now())
    prov,       \* what the market-data provider (akshare) holds per endpoint
    db,         \* the four tables of stock_data.db
    last,       \* the operation that has just ended (history variable)
    firstOut,   \* output of the first call that computed and persisted PB
    fn          \* last application of a pure function: [name, args, result]

vars == <<now, prov, db, last, firstOut, fn>>

----------------------------------------------------------------------------
(* Bounds of the model *)

\* Dates are 1..MaxDate.
MaxDate == 3
\* The clock advances at most this many days.
MaxTicks == 2
\* The provider's share-count history has at most this many rows.
MaxShareRows == 2
\* A frame handed to a save operation has at most this many rows.
MaxBatch == 2

Dates == 1..MaxDate

\* database.py:11 and stock_pbcal.py:71,100 : timedelta(days=5*365)
RetentionDays == 5 * 365

\* The clock starts with every date inside the retention window; each day
\* that passes moves the oldest date out of it.
InitNow == RetentionDays + 1
MaxNow == InitNow + MaxTicks

\* The instrument of the join-engine specification, and a second one for the
\* cache-store specification.
Code == "688120"
Codes == {Code, "600000"}

----------------------------------------------------------------------------
(* float64 values as extended rationals *)

Abs(x) == IF x < 0 THEN -x ELSE x

RECURSIVE GCD(_, _)
GCD(a, b) == IF b = 0 THEN a ELSE GCD(b, a % b)

NaN == [n |-> 0, d |-> 0]
PosInf == [n |-> 1, d |-> 0]
NegInf == [n |-> -1, d |-> 0]

IsNaN(x) == x.d = 0 /\ x.n = 0
IsInf(x) == x.d = 0 /\ x.n # 0
IsFinite(x) == x.d # 0

\* The float n/d for d # 0, in lowest terms with a positive denominator.
Rat(n, d) ==
    LET g == GCD(Abs(n), Abs(d))
        s == IF d < 0 THEN -1 ELSE 1
    IN [n |-> (s * n) \div g, d |-> (s * d) \div g]

Float(i) == [n |-> i, d |-> 1]

\* x != 0 on floats: NaN != 0 is True.
NotZero(x) == ~(x.d # 0 /\ x.n = 0)

\* float64 multiplication (finite operands and NaN).
FMul(a, b) ==
    IF ~IsFinite(a) \/ ~IsFinite(b) THEN NaN
    ELSE Rat(a.n * b.n, a.d * b.d)

\* numpy float64 division: x/0 is +-inf, 0/0 and anything with NaN is NaN.
FDiv(a, b) ==
    IF ~IsFinite(a) \/ ~IsFinite(b) THEN NaN
    ELSE IF b.n = 0
         THEN (IF a.n > 0 THEN PosInf ELSE IF a.n < 0 THEN NegInf ELSE NaN)
         ELSE Rat(a.n * b.d, a.d * b.n)

\* float64 addition (finite operands and NaN).
FAdd(a, b) ==
    IF ~IsFinite(a) \/ ~IsFinite(b) THEN NaN
    ELSE Rat(a.n * b.d + b.n * a.d, a.d * b.d)

\* x > 0 on floats: False for NaN.
FPositive(x) == (x.d # 0 /\ x.n > 0) \/ x = PosInf

\* x <= y and x < y on finite floats.
FLeq(x, y) == x.n * y.d <= y.n * x.d
FLess(x, y) == x.n * y.d < y.n * x.d

----------------------------------------------------------------------------
(* Dates, sqlite cells and frames *)

\* pandas NaT / None in a date column.
NaT == 0

\* A sqlite cell: NULL, or a value.  Python's sqlite3 binds None and a float
\* NaN as NULL; a date is bound as its '%Y-%m-%d' text.
SqlNull == [null |-> TRUE, v |-> 0]
SqlDate(d) == IF d = NaT THEN SqlNull ELSE [null |-> FALSE, v |-> d]
SqlReal(x) == IF IsNaN(x) THEN [null |-> TRUE, v |-> NaN] ELSE [null |-> FALSE, v |-> x]

\* Reading back: pd.to_datetime on a date column, a REAL column as float64.
ToDatetime(c) == IF c.null THEN NaT ELSE c.v
ToFloat(c) == IF c.null THEN NaN ELSE c.v

\* A DataFrame: its column names and its rows in order.  pd.DataFrame() has
\* neither.
Frame(cols, rows) == [columns |-> cols, rows |-> rows]
EmptyFrame == Frame({}, <<>>)
IsEmpty(f) == Len(f.rows) = 0

\* The stored rows of a finite set as a sequence ordered by the date column
\* named key, which is unique within the set (ORDER BY on a UNIQUE column).
RECURSIVE OrderBy(_, _, _)
OrderBy(S, key, asc) ==
    IF S = {} THEN <<>>
    ELSE LET r == CHOOSE x \in S : \A y \in S :
                      IF asc THEN x[key].v <= y[key].v ELSE x[key].v >= y[key].v
         IN <<r>> \o OrderBy(S \ {r}, key, asc)

\* DataFrame.sort_values on a date column: insertion of each row after the
\* rows that do not sort after it.
RECURSIVE SortValues(_, _, _)
SortValues(rows, key, asc) ==
    IF Len(rows) = 0 THEN <<>>
    ELSE LET rest == SortValues(SubSeq(rows, 1, Len(rows) - 1), key, asc)
             r == rows[Len(rows)]
             Before(x) == IF asc THEN x[key] <= r[key] ELSE x[key] >= r[key]
             After(x) == ~Before(x)
         IN SelectSeq(rest, Before) \o <<r>> \o SelectSeq(rest, After)

----------------------------------------------------------------------------
(* database.py : the cache store *)

\* A cutoff ten years back instead of five.
get_ten_years_ago(t) == t - 2 * RetentionDays

\* get_five_years_ago(), for the clock value t.
get_five_years_ago(t) == t - RetentionDays

\* init_database(): four empty tables, each UNIQUE on (stock_code, <date>).
init_database ==
    [stock_price |-> {}, net_assets |-> {}, daily_pb |-> {},
     total_shares_history |-> {}]

\* The loop of a save operation with every INSERT an INSERT OR REPLACE.
RECURSIVE InsertRows_AlwaysReplace(_, _, _, _, _, _)
InsertRows_AlwaysReplace(table, rows, i, fails, key, replace) ==
    IF i > Len(rows) THEN table
    ELSE LET r == rows[i]
             clash == {x \in table : x.stock_code = r.stock_code
                                     /\ x[key] = r[key]}
             next == IF i \in fails \/ r[key].null THEN table
                     ELSE (table \ clash) \cup {r}
         IN InsertRows_AlwaysReplace(next, rows, i + 1, fails, key, replace)

\* The loop of a save operation: one INSERT per row, in row order.  A row in
\* `fails` is one whose cursor.execute raises; the except clause prints and
\* the loop goes on.  A NULL key date violates NOT NULL: OR IGNORE skips the
\* row, OR REPLACE raises, which is caught as well.  On a key already stored
\* OR IGNORE keeps the stored row and OR REPLACE replaces it.  The commit after
\* the loop keeps whatever the loop inserted.
RECURSIVE InsertRows(_, _, _, _, _, _)
InsertRows(table, rows, i, fails, key, replace) ==
    IF i > Len(rows) THEN table
    ELSE LET r == rows[i]
             clash == {x \in table : x.stock_code = r.stock_code
                                     /\ x[key] = r[key]}
             next == IF i \in fails \/ r[key].null THEN table
                     ELSE IF clash = {} THEN table \cup {r}
                     ELSE IF replace THEN (table \ clash) \cup {r}
                     ELSE table
         IN InsertRows(next, rows, i + 1, fails, key, replace)

\* The date column of each table's UNIQUE key.
PriceKey == "date"
NetAssetsKey == "report_date"
PBKey == "date"
SharesKey == "change_date"

\* Column names of the frames.  The provider's Chinese column names are
\* written in English: ReportPeriod is '报告期', OwnersEquity is
\* '所有者权益（或股东权益）合计', NetAssetsYuan is '净资产(元)', ChangeDate is
\* '变更日期', TotalShares is '总股本'.
PriceCols == {"date", "close"}
PBCols == {"date", "close_price", "total_shares", "market_cap", "net_assets",
           "report_date", "pb"}
ProvNetAssetsCols == {"ReportPeriod", "OwnersEquity", "NetAssetsYuan"}
DbNetAssetsCols == {"report_date", "equity", "net_assets"}
ProvSharesCols == {"ChangeDate", "TotalShares"}
DbSharesCols == {"change_date", "total_shares"}

\* The rows of a batch whose INSERT raises inside the loop's try block.
RowErrors(rows, fails, key, replace) ==
    {i \in 1..Len(rows) : i \in fails \/ (replace /\ rows[i][key].null)}

\* The outcome of a save: the table as committed and the rows whose INSERT
\* raised; or the exception raised before the loop (the filter on a date
\* column the frame does not have), in which case nothing is committed.  A
\* row that lacks another column raises inside the loop's try, as a failed
\* INSERT does.  Every save connects in its first statement and closes in
\* its last, outside any try: opened and closed count its connect and close
\* calls.
Saved(table, errors) ==
    [raised |-> FALSE, table |-> table, errors |-> errors,
     opened |-> 1, closed |-> 1]
SaveRaised(table) ==
    [raised |-> TRUE, table |-> table, errors |-> {},
     opened |-> 1, closed |-> 0]

\* save_price_data_to_db(stock_code, price_data) at clock t.
save_price_data_to_db(table, stock_code, price_data, t, fails) ==
    IF ~("date" \in price_data.columns) THEN SaveRaised(table)
    ELSE LET InWindow(r) == r.date # NaT /\ r.date >= get_five_years_ago(t)
             kept == SelectSeq(price_data.rows, InWindow)
             rows == [i \in 1..Len(kept) |->
                        [stock_code |-> stock_code,
                         date |-> SqlDate(kept[i].date),
                         close |-> SqlReal(kept[i].close)]]
         IN IF Len(kept) > 0 /\ ~(PriceCols \subseteq price_data.columns)
            THEN Saved(table, 1..Len(kept))
            ELSE Saved(InsertRows(table, rows, 1, fails, PriceKey, FALSE),
                       RowErrors(rows, fails, PriceKey, FALSE))

\* The read-back of stock_price without its WHERE stock_code = ? condition.
get_price_data_from_db_AnyCode(table, stock_code, t) ==
    LET hit == {r \in table : ~r.date.null /\ r.date.v >= get_five_years_ago(t)}
        ord == OrderBy(hit, "date", TRUE)
    IN Frame(PriceCols, [i \in 1..Len(ord) |->
                [date |-> ToDatetime(ord[i].date),
                 close |-> ToFloat(ord[i].close)]])

\* get_price_data_from_db(stock_code) at clock t.
get_price_data_from_db(table, stock_code, t) ==
    LET hit == {r \in table : r.stock_code = stock_code /\ ~r.date.null
                              /\ r.date.v >= get_five_years_ago(t)}
        ord == OrderBy(hit, "date", TRUE)
    IN Frame(PriceCols, [i \in 1..Len(ord) |->
                [date |-> ToDatetime(ord[i].date),
                 close |-> ToFloat(ord[i].close)]])

\* save_net_assets_to_db(stock_code, net_assets_data) at clock t.
save_net_assets_to_db(table, stock_code, net_assets_data, t, fails) ==
    IF ~("ReportPeriod" \in net_assets_data.columns) THEN SaveRaised(table)
    ELSE LET InWindow(r) == r.ReportPeriod # NaT
                            /\ r.ReportPeriod >= get_five_years_ago(t)
             kept == SelectSeq(net_assets_data.rows, InWindow)
             rows == [i \in 1..Len(kept) |->
                        [stock_code |-> stock_code,
                         report_date |-> SqlDate(kept[i].ReportPeriod),
                         equity |-> kept[i].OwnersEquity,
                         net_assets |-> SqlReal(kept[i].NetAssetsYuan)]]
         IN IF Len(kept) > 0 /\ ~(ProvNetAssetsCols \subseteq net_assets_data.columns)
            THEN Saved(table, 1..Len(kept))
            ELSE Saved(InsertRows(table, rows, 1, fails, NetAssetsKey, FALSE),
                       RowErrors(rows, fails, NetAssetsKey, FALSE))

\* get_net_assets_from_db(stock_code) at clock t.
get_net_assets_from_db(table, stock_code, t) ==
    LET hit == {r \in table : r.stock_code = stock_code /\ ~r.report_date.null
                              /\ r.report_date.v >= get_five_years_ago(t)}
        ord == OrderBy(hit, "report_date", FALSE)
    IN Frame(DbNetAssetsCols, [i \in 1..Len(ord) |->
                [report_date |-> ToDatetime(ord[i].report_date),
                 equity |-> ord[i].equity,
                 net_assets |-> ToFloat(ord[i].net_assets)]])

\* save_pb_to_db(stock_code, pb_data) at clock t.
save_pb_to_db(table, stock_code, pb_data, t, fails) ==
    IF ~("date" \in pb_data.columns) THEN SaveRaised(table)
    ELSE LET InWindow(r) == r.date # NaT /\ r.date >= get_five_years_ago(t)
             kept == SelectSeq(pb_data.rows, InWindow)
             rows == [i \in 1..Len(kept) |->
                        [stock_code |-> stock_code,
                         date |-> SqlDate(kept[i].date),
                         close_price |-> SqlReal(kept[i].close_price),
                         total_shares |-> SqlReal(kept[i].total_shares),
                         market_cap |-> SqlReal(kept[i].market_cap),
                         net_assets |-> SqlReal(kept[i].net_assets),
                         report_date |-> SqlDate(kept[i].report_date),
                         pb |-> SqlReal(kept[i].pb)]]
         IN IF Len(kept) > 0 /\ ~(PBCols \subseteq pb_data.columns)
            THEN Saved(table, 1..Len(kept))
            ELSE Saved(InsertRows(table, rows, 1, fails, PBKey, FALSE),
                       RowErrors(rows, fails, PBKey, FALSE))

\* The read-back of daily_pb with its rows latest first (ORDER BY date DESC).
get_pb_from_db_Desc(table, stock_code, t) ==
    LET hit == {r \in table : r.stock_code = stock_code /\ ~r.date.null
                              /\ r.date.v >= get_five_years_ago(t)}
        ord == OrderBy(hit, "date", FALSE)
    IN Frame(PBCols, [i \in 1..Len(ord) |->
                [date |-> ToDatetime(ord[i].date),
                 close_price |-> ToFloat(ord[i].close_price),
                 total_shares |-> ToFloat(ord[i].total_shares),
                 market_cap |-> ToFloat(ord[i].market_cap),
                 net_assets |-> ToFloat(ord[i].net_assets),
                 report_date |-> ToDatetime(ord[i].report_date),
                 pb |-> ToFloat(ord[i].pb)]])

\* get_pb_from_db(stock_code) at clock t.
get_pb_from_db(table, stock_code, t) ==
    LET hit == {r \in table : r.stock_code = stock_code /\ ~r.date.null
                              /\ r.date.v >= get_five_years_ago(t)}
        ord == OrderBy(hit, "date", TRUE)
    IN Frame(PBCols, [i \in 1..Len(ord) |->
                [date |-> ToDatetime(ord[i].date),
                 close_price |-> ToFloat(ord[i].close_price),
                 total_shares |-> ToFloat(ord[i].total_shares),
                 market_cap |-> ToFloat(ord[i].market_cap),
                 net_assets |-> ToFloat(ord[i].net_assets),
                 report_date |-> ToDatetime(ord[i].report_date),
                 pb |-> ToFloat(ord[i].pb)]])

\* save_total_shares_history_to_db(stock_code, shares_history_data): no
\* retention filter, INSERT OR REPLACE.
save_total_shares_history_to_db(table, stock_code, shares_history_data, fails) ==
    IF Len(shares_history_data.rows) > 0
       /\ ~(ProvSharesCols \subseteq shares_history_data.columns)
    THEN Saved(table, 1..Len(shares_history_data.rows))
    ELSE LET src == shares_history_data.rows
             rows == [i \in 1..Len(src) |->
                        [stock_code |-> stock_code,
                         change_date |-> SqlDate(src[i].ChangeDate),
                         total_shares |-> SqlReal(src[i].TotalShares)]]
         IN Saved(InsertRows(table, rows, 1, fails, SharesKey, TRUE),
                       RowErrors(rows, fails, SharesKey, TRUE))

\* get_total_shares_history_from_db(stock_code): every row of the code,
\* latest change first.
get_total_shares_history_from_db(table, stock_code) ==
    LET hit == {r \in table : r.stock_code = stock_code}
        ord == OrderBy(hit, "change_date", FALSE)
    IN Frame(DbSharesCols, [i \in 1..Len(ord) |->
                [change_date |-> ToDatetime(ord[i].change_date),
                 total_shares |-> ToFloat(ord[i].total_shares)]])

----------------------------------------------------------------------------
(* stock_pbcal.py : the provider boundary *)

\* A cell of the provider's equity column: text with a numeric part and a
\* suffix ("" none, "yi" the hundred-million unit, "junk" anything else), or
\* the boolean False the provider writes for a missing figure.
EquityText(num, suffix) == [type |-> "str", num |-> num, suffix |-> suffix]
EquityFalse == [type |-> "bool", num |-> Float(0), suffix |-> ""]

HundredMillion == 100000000

\* The conversion with float(value) tried on text only.
convert_to_numeric_TextOnly(value) ==
    IF value.type = "str" /\ value.suffix = "yi"
    THEN FMul(value.num, Float(HundredMillion))
    ELSE IF value.type = "str"
         THEN (IF value.suffix = "" THEN value.num ELSE NaN)
         ELSE NaN

\* get_net_assets_per_quarter.convert_to_numeric(value): text with the unit
\* scaled, any other value through float(value), which takes text of a
\* number, booleans and numbers and raises on the rest (None, text with
\* another suffix); the bare except turns every exception into NaN.
convert_to_numeric(value) ==
    IF value.type = "str" /\ value.suffix = "yi"
    THEN FMul(value.num, Float(HundredMillion))
    ELSE IF value.type = "str"
         THEN (IF value.suffix = "" THEN value.num ELSE NaN)
         ELSE IF value.type \in {"bool", "int", "float"} THEN value.num
              ELSE NaN

\* What one call receives from a provider endpoint: a frame, or a failure
\* (an exception, None, or an empty frame).
Response(ok, frame) == [ok |-> ok, frame |-> frame]

\* The fetch returning every report of the provider, without the filter of
\* lines 71-72.
get_net_assets_per_quarter_AllReports(table, stock_code, t, resp) ==
    LET cached == get_net_assets_from_db(table, stock_code, t)
    IN IF ~IsEmpty(cached)
       THEN [frame |-> cached, table |-> table, fetched |-> FALSE]
       ELSE IF ~resp.ok \/ IsEmpty(resp.frame)
            THEN [frame |-> EmptyFrame, table |-> table, fetched |-> TRUE]
            ELSE LET raw == resp.frame.rows
                     conv == [i \in 1..Len(raw) |->
                                [ReportPeriod |-> raw[i].ReportPeriod,
                                 OwnersEquity |-> raw[i].OwnersEquity,
                                 NetAssetsYuan |->
                                     convert_to_numeric(raw[i].OwnersEquity)]]
                     sorted == Frame(ProvNetAssetsCols,
                                     SortValues(conv, "ReportPeriod", FALSE))
                     sv == save_net_assets_to_db(table, stock_code, sorted, t, {})
                 IN IF sv.raised
                    THEN [frame |-> EmptyFrame, table |-> sv.table, fetched |-> TRUE]
                    ELSE [frame |-> sorted, table |-> sv.table, fetched |-> TRUE]

\* get_net_assets_per_quarter(stock_code) at clock t, on table net_assets.
get_net_assets_per_quarter(table, stock_code, t, resp) ==
    LET cached == get_net_assets_from_db(table, stock_code, t)
    IN IF ~IsEmpty(cached)
       THEN [frame |-> cached, table |-> table, fetched |-> FALSE]
       ELSE IF ~resp.ok \/ IsEmpty(resp.frame)
            THEN [frame |-> EmptyFrame, table |-> table, fetched |-> TRUE]
            ELSE LET raw == resp.frame.rows
                     conv == [i \in 1..Len(raw) |->
                                [ReportPeriod |-> raw[i].ReportPeriod,
                                 OwnersEquity |-> raw[i].OwnersEquity,
                                 NetAssetsYuan |->
                                     convert_to_numeric(raw[i].OwnersEquity)]]
                     sorted == Frame(ProvNetAssetsCols,
                                     SortValues(conv, "ReportPeriod", FALSE))
                     sv == save_net_assets_to_db(table, stock_code, sorted, t, {})
                     Recent(r) == r.ReportPeriod # NaT
                                  /\ r.ReportPeriod >= get_five_years_ago(t)
                 IN IF sv.raised
                    THEN [frame |-> EmptyFrame, table |-> sv.table, fetched |-> TRUE]
                    ELSE [frame |-> Frame(ProvNetAssetsCols,
                                          SelectSeq(sorted.rows, Recent)),
                          table |-> sv.table, fetched |-> TRUE]

\* get_stock_price_data(stock_code) at clock t, on table stock_price.
get_stock_price_data(table, stock_code, t, resp) ==
    LET cached == get_price_data_from_db(table, stock_code, t)
    IN IF ~IsEmpty(cached)
       THEN [none |-> FALSE, frame |-> cached, table |-> table, fetched |-> FALSE]
       ELSE IF ~resp.ok \/ ~("date" \in resp.frame.columns)
            THEN [none |-> TRUE, frame |-> EmptyFrame, table |-> table,
                  fetched |-> TRUE]
            ELSE LET Recent(r) == r.date # NaT /\ r.date >= get_five_years_ago(t)
                     recent == Frame(resp.frame.columns,
                                     SelectSeq(resp.frame.rows, Recent))
                     sv == save_price_data_to_db(table, stock_code, recent, t, {})
                 IN IF sv.raised
                    THEN [none |-> TRUE, frame |-> EmptyFrame, table |-> sv.table,
                          fetched |-> TRUE]
                    ELSE [none |-> FALSE, frame |-> recent, table |-> sv.table,
                          fetched |-> TRUE]

\* get_total_shares_history(stock_code), on table total_shares_history.
get_total_shares_history(table, stock_code, resp) ==
    LET cached == get_total_shares_history_from_db(table, stock_code)
    IN IF ~IsEmpty(cached)
       THEN [frame |-> cached, table |-> table, fetched |-> FALSE]
       ELSE IF ~resp.ok \/ IsEmpty(resp.frame)
                \/ ~("ChangeDate" \in resp.frame.columns)
            THEN [frame |-> EmptyFrame, table |-> table, fetched |-> TRUE]
            ELSE LET sv == save_total_shares_history_to_db(
                               table, stock_code, resp.frame, {})
                 IN IF sv.raised
                    THEN [frame |-> EmptyFrame, table |-> sv.table, fetched |-> TRUE]
                    ELSE [frame |-> resp.frame, table |-> sv.table, fetched |-> TRUE]

----------------------------------------------------------------------------
(* stock_pbcal.py : the share-count resolver and the point-in-time join *)

\* What a function returns or raises: a value, None, or a KeyError.
Value(x) == [kind |-> "value", value |-> x]
None == [kind |-> "None", value |-> NaN]
KeyError == [kind |-> "KeyError", value |-> NaN]

\* get_total_shares_for_date(shares_history, target_date)
get_total_shares_for_date(shares_history, target_date) ==
    IF ~("ChangeDate" \in shares_history.columns) THEN KeyError
    ELSE LET Applicable(r) == r.ChangeDate # NaT /\ target_date # NaT
                              /\ r.ChangeDate <= target_date
             applicable_records == SelectSeq(shares_history.rows, Applicable)
         IN IF Len(applicable_records) > 0
            THEN (IF "TotalShares" \in shares_history.columns
                  THEN Value(applicable_records[1].TotalShares)
                  ELSE KeyError)
            ELSE IF Len(shares_history.rows) > 0
                 THEN (IF "TotalShares" \in shares_history.columns
                       THEN Value(shares_history.rows[1].TotalShares)
                       ELSE KeyError)
                 ELSE None

\* calculate_daily_pb, line 216: the reports dated at or before the bar, in
\* the order of the sorted report frame.
ApplicableReport(net_assets_rows, current_date) ==
    LET AtOrBefore(r) == r.ReportPeriod # NaT /\ r.ReportPeriod <= current_date
    IN SelectSeq(net_assets_rows, AtOrBefore)

\* The report choice reading the first applicable row (iloc[0]).
LatestReport_First(applicable_report) == applicable_report[1]

\* The report choice falling back to the latest applicable row whose net
\* assets are defined.
LatestReport_LastDefined(applicable_report) ==
    LET Defined(r) == ~IsNaN(r.NetAssetsYuan)
        defined == SelectSeq(applicable_report, Defined)
    IN IF Len(defined) > 0 THEN defined[Len(defined)]
       ELSE applicable_report[Len(applicable_report)]

\* calculate_daily_pb, lines 220-221: applicable_report.iloc[-1]
LatestReport(applicable_report) == applicable_report[Len(applicable_report)]

\* The division without its guard against zero net assets.
ComputePB_Unguarded(market_cap, latest_net_assets) ==
    FDiv(market_cap, latest_net_assets)

\* calculate_daily_pb, line 226
ComputePB(market_cap, latest_net_assets) ==
    IF NotZero(latest_net_assets) THEN FDiv(market_cap, latest_net_assets)
    ELSE NaN

\* The record of one bar with the market cap computed before the report
\* lookup and kept in the record of a bar that has no report.
PBRecord_KeepsMarketCap(net_assets_rows, current_date, close_price, total_shares) ==
    LET AtOrBefore(r) == r.ReportPeriod # NaT /\ r.ReportPeriod <= current_date
        applicable_report == SelectSeq(net_assets_rows, AtOrBefore)
        market_cap == FMul(close_price, total_shares)
    IN IF Len(applicable_report) > 0
       THEN LET latest == applicable_report[Len(applicable_report)]
            IN [date |-> current_date,
                close_price |-> close_price,
                total_shares |-> total_shares,
                market_cap |-> market_cap,
                net_assets |-> latest.NetAssetsYuan,
                report_date |-> latest.ReportPeriod,
                pb |-> IF NotZero(latest.NetAssetsYuan)
                       THEN FDiv(market_cap, latest.NetAssetsYuan) ELSE NaN]
       ELSE [date |-> current_date,
             close_price |-> close_price,
             total_shares |-> total_shares,
             market_cap |-> market_cap,
             net_assets |-> NaN,
             report_date |-> NaT,
             pb |-> NaN]

\* calculate_daily_pb, lines 215-247: the record of one bar, given its
\* resolved share count.
PBRecord(net_assets_rows, current_date, close_price, total_shares) ==
    LET applicable_report == ApplicableReport(net_assets_rows, current_date)
    IN IF Len(applicable_report) > 0
       THEN LET latest == LatestReport(applicable_report)
                market_cap == FMul(close_price, total_shares)
            IN [date |-> current_date,
                close_price |-> close_price,
                total_shares |-> total_shares,
                market_cap |-> market_cap,
                net_assets |-> latest.NetAssetsYuan,
                report_date |-> latest.ReportPeriod,
                pb |-> ComputePB(market_cap, latest.NetAssetsYuan)]
       ELSE [date |-> current_date,
             close_price |-> close_price,
             total_shares |-> total_shares,
             market_cap |-> NaN,
             net_assets |-> NaN,
             report_date |-> NaT,
             pb |-> NaN]

\* calculate_daily_pb, lines 204-247: the loop over the price bars from bar i
\* on, with the records appended so far.  A bar whose share count is None is
\* skipped; a KeyError leaves the loop and the function.
RECURSIVE DailyLoop(_, _, _, _, _)
DailyLoop(price_rows, shares_history, net_assets_rows, i, pb_results) ==
    IF i > Len(price_rows) THEN [raised |-> FALSE, rows |-> pb_results]
    ELSE LET row == price_rows[i]
             total_shares == get_total_shares_for_date(shares_history, row.date)
         IN IF total_shares.kind = "KeyError"
            THEN [raised |-> TRUE, rows |-> pb_results]
            ELSE IF total_shares.kind = "None"
                 THEN DailyLoop(price_rows, shares_history, net_assets_rows,
                                i + 1, pb_results)
                 ELSE DailyLoop(price_rows, shares_history, net_assets_rows, i + 1,
                                Append(pb_results,
                                       PBRecord(net_assets_rows, row.date,
                                                row.close, total_shares.value)))

\* The join without its test for an empty share-count history.
NoSharesHistory_Unchecked(shares_history) == FALSE

\* calculate_daily_pb, line 194: shares_history.empty
NoSharesHistory(shares_history) == IsEmpty(shares_history)

\* What calculate_daily_pb returns ("df", the frame), or None, or the
\* KeyError it lets through; with the tables as it leaves them and the set of
\* provider endpoints it called.
Result(kind, frame, tables, fetched) ==
    [kind |-> kind, frame |-> frame, db |-> tables, fetched |-> fetched]

Fetched(name, flag) == IF flag THEN {name} ELSE {}

\* calculate_daily_pb, lines 182-255: from the price fetch on, with the
\* report frame na already obtained and shown.
JoinFrom(tables, stock_code, t, resp, na, fetched0) ==
    LET pr == get_stock_price_data(tables.stock_price, stock_code, t, resp.prices)
        db1 == [tables EXCEPT !.stock_price = pr.table]
        fetched1 == fetched0 \cup Fetched("prices", pr.fetched)
    IN IF pr.none \/ IsEmpty(pr.frame)
       THEN Result("None", EmptyFrame, db1, fetched1)
       ELSE LET sh == get_total_shares_history(
                          db1.total_shares_history, stock_code, resp.shares)
                db2 == [db1 EXCEPT !.total_shares_history = sh.table]
                fetched2 == fetched1 \cup Fetched("shares", sh.fetched)
            IN IF NoSharesHistory(sh.frame)
               THEN Result("None", EmptyFrame, db2, fetched2)
               ELSE LET sorted == SortValues(na.frame.rows, "ReportPeriod", TRUE)
                        loop == DailyLoop(pr.frame.rows, sh.frame, sorted, 1, <<>>)
                        pb_df == IF Len(loop.rows) = 0 THEN EmptyFrame
                                 ELSE Frame(PBCols, loop.rows)
                        sv == save_pb_to_db(db2.daily_pb, stock_code, pb_df, t, {})
                    IN IF loop.raised \/ sv.raised
                       THEN Result("KeyError", EmptyFrame, db2, fetched2)
                       ELSE Result("df", pb_df,
                                   [db2 EXCEPT !.daily_pb = sv.table], fetched2)

\* calculate_daily_pb(stock_code) at clock t; resp is what the provider
\* returns to this call, per endpoint.
calculate_daily_pb(tables, stock_code, t, resp) ==
    LET cached == get_pb_from_db(tables.daily_pb, stock_code, t)
    IN IF ~IsEmpty(cached)
       THEN Result("df", cached, tables, {})
       ELSE LET na == get_net_assets_per_quarter(
                          tables.net_assets, stock_code, t, resp.net_assets)
                db1 == [tables EXCEPT !.net_assets = na.table]
                fetched1 == Fetched("net_assets", na.fetched)
            IN IF IsEmpty(na.frame)
               THEN Result("None", EmptyFrame, db1, fetched1)
               ELSE IF ~(ProvNetAssetsCols \subseteq na.frame.columns)
                    THEN Result("KeyError", EmptyFrame, db1, fetched1)
                    ELSE JoinFrom(db1, stock_code, t, resp, na, fetched1)

----------------------------------------------------------------------------
(* etf_pb_store.py : quarter labels and the per-quarter composite series *)

\* A quarter label is the sequence of its characters, the runs of
\* non-digits taken as one: "Y" is the year sign, "Q" the quarter sign and
\* "Detail" the rest of "2025年1季度股票投资明细"; a digit is "0".."9".
DigitChars == <<"0", "1", "2", "3", "4", "5", "6", "7", "8", "9">>
IsDigit(ch) == \E k \in 1..10 : DigitChars[k] = ch
DigitValue(ch) == (CHOOSE k \in 1..10 : DigitChars[k] = ch) - 1
DigitOf(k) == DigitChars[k + 1]

\* No match of a regular expression, and None as a return value.
NoMatch == -1

\* extract_year_from_quarter: re.search(r'(\d{4})年'), the leftmost match.
extract_year_from_quarter(quarter_str) ==
    LET hits == {i \in 1..Len(quarter_str) - 4 :
                    /\ \A j \in 0..3 : IsDigit(quarter_str[i + j])
                    /\ quarter_str[i + 4] = "Y"}
    IN IF hits = {} THEN NoMatch
       ELSE LET i == CHOOSE x \in hits : \A y \in hits : x <= y
            IN 1000 * DigitValue(quarter_str[i]) + 100 * DigitValue(quarter_str[i + 1])
               + 10 * DigitValue(quarter_str[i + 2]) + DigitValue(quarter_str[i + 3])

\* extract_quarter_number: re.search(r'(\d)季度'), the leftmost match.
extract_quarter_number(quarter_str) ==
    LET hits == {i \in 1..Len(quarter_str) - 1 :
                    IsDigit(quarter_str[i]) /\ quarter_str[i + 1] = "Q"}
    IN IF hits = {} THEN NoMatch
       ELSE LET i == CHOOSE x \in hits : \A y \in hits : x <= y
            IN DigitValue(quarter_str[i])

\* f"{year}年{quarter_num}季度股票投资明细" for a four-digit year.
QuarterLabel(year, quarter_num) ==
    <<DigitOf(year \div 1000), DigitOf((year \div 100) % 10),
      DigitOf((year \div 10) % 10), DigitOf(year % 10), "Y",
      DigitOf(quarter_num), "Q", "Detail">>

\* The calendar: day 1 is January 1 of BaseYear and every quarter has
\* QuarterDays days.
BaseYear == 2024
QuarterDays == 2
QuarterStart(year, quarter_num) ==
    ((year - BaseYear) * 4 + (quarter_num - 1)) * QuarterDays + 1
QuarterEnd(year, quarter_num) ==
    QuarterStart(year, quarter_num) + QuarterDays - 1

\* The elements of a sequence.
Range(seq) == {seq[i] : i \in 1..Len(seq)}

\* sorted(list(all_dates)) of a set of dates.
RECURSIVE SortedDates(_)
SortedDates(S) ==
    IF S = {} THEN <<>>
    ELSE LET d == CHOOSE x \in S : \A y \in S : x <= y
         IN <<d>> \o SortedDates(S \ {d})

\* The contribution of a constituent without the test pb_value > 0.
Contribution_AnySign(stock_info, date) ==
    LET date_data == SelectSeq(stock_info.data, LAMBDA r : r.date = date)
    IN IF Len(date_data) = 0 THEN [raised |-> FALSE, counts |-> FALSE, pb |-> NaN]
       ELSE IF stock_info.objects
            THEN [raised |-> TRUE, counts |-> FALSE, pb |-> NaN]
            ELSE [raised |-> FALSE, counts |-> ~IsNaN(date_data[1].pb),
                  pb |-> date_data[1].pb]

\* What one constituent adds to the sums of one date: nothing if it has no
\* row on the date or its PB is NaN or not positive.  read_sql_query gives
\* a REAL column whose every cell is NULL as objects (None), and
\* np.isnan(None) raises TypeError.
Contribution(stock_info, date) ==
    LET date_data == SelectSeq(stock_info.data, LAMBDA r : r.date = date)
    IN IF Len(date_data) = 0 THEN [raised |-> FALSE, counts |-> FALSE, pb |-> NaN]
       ELSE IF stock_info.objects
            THEN [raised |-> TRUE, counts |-> FALSE, pb |-> NaN]
            ELSE LET pb_value == date_data[1].pb
                 IN [raised |-> FALSE,
                     counts |-> ~IsNaN(pb_value) /\ FPositive(pb_value),
                     pb |-> pb_value]

\* The inner loop over available_stocks for one date, from stock i on.
RECURSIVE DateSums(_, _, _, _, _)
DateSums(available_stocks, all_stock_pb_data, date, i, acc) ==
    IF i > Len(available_stocks) THEN acc
    ELSE LET c == Contribution(all_stock_pb_data[available_stocks[i]], date)
             w == all_stock_pb_data[available_stocks[i]].weight
         IN IF c.raised THEN [acc EXCEPT !.raised = TRUE]
            ELSE DateSums(available_stocks, all_stock_pb_data, date, i + 1,
                    IF c.counts
                    THEN [acc EXCEPT
                            !.weighted_pb_sum = FAdd(@, FMul(w, c.pb)),
                            !.total_weight = FAdd(@, w),
                            !.valid_stocks_count = @ + 1]
                    ELSE acc)

\* The loop emitting a point on every date, without the test total_weight > 0.
RECURSIVE QuarterLoop_EveryDate(_, _, _, _, _, _)
QuarterLoop_EveryDate(available_stocks, all_stock_pb_data, all_dates, quarter_name, i, out) ==
    IF i > Len(all_dates) THEN [kind |-> "df", rows |-> out]
    ELSE LET sums == DateSums(available_stocks, all_stock_pb_data, all_dates[i], 1,
                              [raised |-> FALSE, weighted_pb_sum |-> Float(0),
                               total_weight |-> Float(0), valid_stocks_count |-> 0])
         IN IF sums.raised THEN [kind |-> "TypeError", rows |-> <<>>]
            ELSE QuarterLoop_EveryDate(available_stocks, all_stock_pb_data,
                    all_dates, quarter_name, i + 1,
                    Append(out,
                        [date |-> all_dates[i],
                         pb |-> FDiv(sums.weighted_pb_sum, sums.total_weight),
                         valid_stocks_count |-> sums.valid_stocks_count,
                         total_weight |-> sums.total_weight,
                         quarter |-> quarter_name]))

\* The loop over all_dates, from date i on.
RECURSIVE QuarterLoop(_, _, _, _, _, _)
QuarterLoop(available_stocks, all_stock_pb_data, all_dates, quarter_name, i, out) ==
    IF i > Len(all_dates) THEN [kind |-> "df", rows |-> out]
    ELSE LET sums == DateSums(available_stocks, all_stock_pb_data, all_dates[i], 1,
                              [raised |-> FALSE, weighted_pb_sum |-> Float(0),
                               total_weight |-> Float(0), valid_stocks_count |-> 0])
         IN IF sums.raised THEN [kind |-> "TypeError", rows |-> <<>>]
            ELSE QuarterLoop(available_stocks, all_stock_pb_data, all_dates,
                    quarter_name, i + 1,
                    IF FPositive(sums.total_weight)
                    THEN Append(out,
                            [date |-> all_dates[i],
                             pb |-> FDiv(sums.weighted_pb_sum, sums.total_weight),
                             valid_stocks_count |-> sums.valid_stocks_count,
                             total_weight |-> sums.total_weight,
                             quarter |-> quarter_name])
                    ELSE out)

\* The PB rows of one constituent, its rows outside the quarter kept.
StockInfo_WholeSeries(table, row, t, start_date, end_date) ==
    LET pb_data == get_pb_from_db(table, row.stock_code, t)
    IN [data |-> pb_data.rows,
        weight |-> row.weight,
        objects |-> \A i \in 1..Len(pb_data.rows) : IsNaN(pb_data.rows[i].pb)]

\* The in-quarter PB rows of one constituent, as the first loop gathers them.
StockInfo(table, row, t, start_date, end_date) ==
    LET pb_data == get_pb_from_db(table, row.stock_code, t)
        InQuarter(r) == r.date >= start_date /\ r.date <= end_date
    IN [data |-> SelectSeq(pb_data.rows, InQuarter),
        weight |-> row.weight,
        objects |-> \A i \in 1..Len(pb_data.rows) : IsNaN(pb_data.rows[i].pb)]

\* The first loop: available_stocks in holdings order, one entry per row
\* whose constituent has a PB row in the quarter.
RECURSIVE AvailableStocks(_, _, _, _, _, _)
AvailableStocks(table, quarter_data, t, start_date, end_date, i) ==
    IF i > Len(quarter_data) THEN <<>>
    ELSE LET info == StockInfo(table, quarter_data[i], t, start_date, end_date)
             rest == AvailableStocks(table, quarter_data, t, start_date, end_date, i + 1)
         IN IF Len(info.data) > 0 THEN <<quarter_data[i].stock_code>> \o rest
            ELSE rest

\* calculate_single_quarter_etf_pb_time_series(quarter_data, quarter_name)
\* on the daily_pb table at clock t: the series, None, or the exception.
calculate_single_quarter_etf_pb_time_series(table, quarter_data, quarter_name, t) ==
    LET year == extract_year_from_quarter(quarter_name)
        quarter_num == extract_quarter_number(quarter_name)
    IN IF year = NoMatch \/ quarter_num = NoMatch \/ quarter_num \notin 1..4
       THEN [kind |-> "None", rows |-> <<>>]
       ELSE LET start_date == QuarterStart(year, quarter_num)
                end_date == QuarterEnd(year, quarter_num)
                available_stocks ==
                    AvailableStocks(table, quarter_data, t, start_date, end_date, 1)
                Last(code) == CHOOSE i \in 1..Len(quarter_data) :
                                  /\ quarter_data[i].stock_code = code
                                  /\ \A j \in i + 1..Len(quarter_data) :
                                         quarter_data[j].stock_code # code
                all_stock_pb_data ==
                    [code \in {available_stocks[i] : i \in 1..Len(available_stocks)} |->
                        StockInfo(table, quarter_data[Last(code)], t,
                                  start_date, end_date)]
                all_dates ==
                    SortedDates(UNION {{all_stock_pb_data[c].data[i].date :
                                           i \in 1..Len(all_stock_pb_data[c].data)} :
                                       c \in DOMAIN all_stock_pb_data})
            IN IF Len(available_stocks) = 0 THEN [kind |-> "None", rows |-> <<>>]
               ELSE LET loop == QuarterLoop(available_stocks, all_stock_pb_data,
                                            all_dates, quarter_name, 1, <<>>)
                    IN IF loop.kind = "df" /\ Len(loop.rows) = 0
                       THEN [kind |-> "None", rows |-> <<>>]
                       ELSE loop

----------------------------------------------------------------------------
(* etf_pb_store.py : reading the holdings file and filling quarter gaps *)

\* A holdings file is missing, or a sequence of rows, each with its quarter
\* label, its six-digit stock code and the percent figure of its
\* '占净值比例' text ("60.0%" is 60).
MissingFile == [exists |-> FALSE, rows |-> <<>>]
HoldingsFile(rows) == [exists |-> TRUE, rows |-> rows]

\* Lines 25-37: the rows as parsed, weight = percent / 100, those of weight
\* 0 or less dropped.
ParsedHoldings(rows) ==
    LET parsed == [i \in 1..Len(rows) |->
                      [quarter |-> rows[i].quarter,
                       stock_code |-> rows[i].stock_code,
                       weight |-> FDiv(rows[i].percent, Float(100))]]
    IN SelectSeq(parsed, LAMBDA r : FPositive(r.weight))

\* df['季度'].unique().tolist(): the labels in order of first appearance.
RECURSIVE UniqueQuarters(_, _)
UniqueQuarters(rows, i) ==
    IF i > Len(rows) THEN <<>>
    ELSE IF \E j \in 1..i - 1 : rows[j].quarter = rows[i].quarter
         THEN UniqueQuarters(rows, i + 1)
         ELSE <<rows[i].quarter>> \o UniqueQuarters(rows, i + 1)

\* quarter_details: (year, quarter_num, quarter) of the labels that parse.
QuarterDetails(unique_quarters) ==
    LET all == [i \in 1..Len(unique_quarters) |->
                   [year |-> extract_year_from_quarter(unique_quarters[i]),
                    quarter_num |-> extract_quarter_number(unique_quarters[i]),
                    quarter |-> unique_quarters[i]]]
    IN SelectSeq(all, LAMBDA qd : qd.year # NoMatch /\ qd.quarter_num # NoMatch)

\* sorted tuples compare by year, then quarter number, then label; the first
\* of the details of one (year, quarter_num) is the one next() finds.  The
\* labels of a file name each quarter once.
FirstDetail(quarter_details, year, quarter_num) ==
    quarter_details[CHOOSE i \in 1..Len(quarter_details) :
        /\ quarter_details[i].year = year
        /\ quarter_details[i].quarter_num = quarter_num]

\* The loop ending at the last disclosed quarter instead of the last quarter
\* of max_year.
RECURSIVE FillQuarters_ToLastDisclosed(_, _, _, _, _, _, _)
FillQuarters_ToLastDisclosed(df, quarter_details, min_year, max_year, k, last_known_data, out) ==
    LET year == min_year + (k \div 4)
        quarter_num == (k % 4) + 1
    IN IF ~\E i \in 1..Len(quarter_details) :
              4 * quarter_details[i].year + quarter_details[i].quarter_num
                  >= 4 * year + quarter_num
       THEN out
       ELSE IF \E i \in 1..Len(quarter_details) :
                  /\ quarter_details[i].year = year
                  /\ quarter_details[i].quarter_num = quarter_num
            THEN LET quarter_name ==
                         FirstDetail(quarter_details, year, quarter_num).quarter
                     quarter_data ==
                         SelectSeq(df, LAMBDA r : r.quarter = quarter_name
                                                  /\ FPositive(r.weight))
                 IN FillQuarters_ToLastDisclosed(
                        df, quarter_details, min_year, max_year, k + 1,
                        [known |-> TRUE, rows |-> quarter_data],
                        Append(out, quarter_data))
            ELSE IF last_known_data.known
                 THEN LET filled_data ==
                              [i \in 1..Len(last_known_data.rows) |->
                                  [last_known_data.rows[i] EXCEPT
                                      !.quarter = QuarterLabel(year, quarter_num)]]
                      IN FillQuarters_ToLastDisclosed(
                             df, quarter_details, min_year, max_year, k + 1,
                             last_known_data, Append(out, filled_data))
                 ELSE FillQuarters_ToLastDisclosed(
                          df, quarter_details, min_year, max_year, k + 1,
                          last_known_data, out)

\* The loop of lines 71-92 over the quarters k = 0, 1, ... counted from the
\* first quarter of min_year, up to the last quarter of max_year.
RECURSIVE FillQuarters(_, _, _, _, _, _, _)
FillQuarters(df, quarter_details, min_year, max_year, k, last_known_data, out) ==
    LET year == min_year + (k \div 4)
        quarter_num == (k % 4) + 1
    IN IF year > max_year THEN out
       ELSE IF \E i \in 1..Len(quarter_details) :
                  /\ quarter_details[i].year = year
                  /\ quarter_details[i].quarter_num = quarter_num
            THEN LET quarter_name ==
                         FirstDetail(quarter_details, year, quarter_num).quarter
                     quarter_data ==
                         SelectSeq(df, LAMBDA r : r.quarter = quarter_name
                                                  /\ FPositive(r.weight))
                 IN FillQuarters(df, quarter_details, min_year, max_year, k + 1,
                                 [known |-> TRUE, rows |-> quarter_data],
                                 Append(out, quarter_data))
            ELSE IF last_known_data.known
                 THEN LET filled_data ==
                              [i \in 1..Len(last_known_data.rows) |->
                                  [last_known_data.rows[i] EXCEPT
                                      !.quarter = QuarterLabel(year, quarter_num)]]
                      IN FillQuarters(df, quarter_details, min_year, max_year,
                                      k + 1, last_known_data,
                                      Append(out, filled_data))
                 ELSE FillQuarters(df, quarter_details, min_year, max_year,
                                   k + 1, last_known_data, out)

\* pd.concat(complete_quarter_data, ignore_index=True)
RECURSIVE Concat(_, _)
Concat(frames, i) ==
    IF i > Len(frames) THEN <<>> ELSE frames[i] \o Concat(frames, i + 1)

\* The same loop, a missing quarter left out instead of filled.
read_etf_holdings_NoFill(file) ==
    IF ~file.exists THEN [kind |-> "None", rows |-> <<>>]
    ELSE [kind |-> "df", rows |-> ParsedHoldings(file.rows)]

\* read_etf_holdings(etf_code) on the file of the ETF.
read_etf_holdings(file) ==
    IF ~file.exists THEN [kind |-> "None", rows |-> <<>>]
    ELSE LET df == ParsedHoldings(file.rows)
             quarter_details == QuarterDetails(UniqueQuarters(df, 1))
             years == {quarter_details[i].year : i \in 1..Len(quarter_details)}
         IN IF Len(quarter_details) = 0 THEN [kind |-> "df", rows |-> df]
            ELSE LET min_year == CHOOSE y \in years : \A z \in years : y <= z
                     max_year == CHOOSE y \in years : \A z \in years : y >= z
                     complete_quarter_data ==
                         FillQuarters(df, quarter_details, min_year, max_year, 0,
                                      [known |-> FALSE, rows |-> <<>>], <<>>)
                 IN [kind |-> "df",
                     rows |-> IF Len(complete_quarter_data) > 0
                              THEN Concat(complete_quarter_data, 1)
                              ELSE df]

----------------------------------------------------------------------------
(* etf_pb_cal.py : the percentile rank *)

\* sorted(pb_history): insertion of each value after those not above it.
RECURSIVE Sorted(_)
Sorted(values) ==
    IF Len(values) = 0 THEN <<>>
    ELSE LET rest == Sorted(SubSeq(values, 1, Len(values) - 1))
             v == values[Len(values)]
         IN SelectSeq(rest, LAMBDA x : FLeq(x, v)) \o <<v>>
            \o SelectSeq(rest, LAMBDA x : ~FLeq(x, v))

\* np.searchsorted(a, v, side='left'): the first insertion point that keeps
\* a sorted.
searchsorted_left(a, v) ==
    CHOOSE i \in 0..Len(a) :
        /\ \A j \in 1..i : FLess(a[j], v)
        /\ \A j \in i + 1..Len(a) : FLeq(v, a[j])

\* np.searchsorted(a, v, side='right'): the last insertion point that keeps
\* a sorted.
searchsorted_right(a, v) ==
    CHOOSE i \in 0..Len(a) :
        /\ \A j \in 1..i : FLeq(a[j], v)
        /\ \A j \in i + 1..Len(a) : FLess(v, a[j])

\* calculate_percentile_rank(current_pb, pb_history)
calculate_percentile_rank(current_pb, pb_history) ==
    IF Len(pb_history) = 0 THEN None
    ELSE LET sorted_history == Sorted(pb_history)
         IN Value(FMul(FDiv(Float(searchsorted_right(sorted_history, current_pb)),
                            Float(Len(sorted_history))),
                       Float(100)))

----------------------------------------------------------------------------
(* The environment of the join engine: one instrument at the provider *)

\* The equity cells the provider's reports carry: "5000", False, "--".
EquityCells == <<EquityText(Float(5000), ""), EquityFalse,
                 EquityText(Float(0), "junk")>>

\* The dates of a set, oldest first and latest first.
RECURSIVE DatesAsc(_)
DatesAsc(T) ==
    IF T = {} THEN <<>>
    ELSE LET d == CHOOSE x \in T : \A y \in T : x <= y
         IN <<d>> \o DatesAsc(T \ {d})

DatesDesc(T) ==
    LET q == DatesAsc(T) IN [i \in 1..Len(q) |-> q[Len(q) + 1 - i]]

\* The bar of date d closes at ClosePrice(d); a share-count change of date d
\* leaves SharesOn(d) shares.
ClosePrice(d) == Float(8 + 2 * d)
SharesOn(d) == Float(500 + 500 * d)

\* The provider's balance-sheet frames: at most one report per date, latest
\* first; the reports of successive dates carry successive equity cells,
\* starting from any of them.
ProviderReports ==
    { LET q == DatesDesc(S)
      IN [i \in 1..Len(q) |->
            [ReportPeriod |-> q[i],
             OwnersEquity |-> EquityCells[((q[i] + k) % 3) + 1]]]
      : S \in SUBSET Dates, k \in 0..2 }

\* The provider's daily bars: one per date, oldest first.
ProviderPrices ==
    { [d \in 1..MaxDate |-> [date |-> d, close |-> ClosePrice(d)]] }

\* The provider's share-count histories: at most MaxShareRows changes on
\* distinct dates, listed oldest first or latest first.
ProviderShares ==
    { LET q == IF asc THEN DatesAsc(S) ELSE DatesDesc(S)
      IN [i \in 1..Len(q) |->
            [ChangeDate |-> q[i], TotalShares |-> SharesOn(q[i])]]
      : S \in {T \in SUBSET Dates : Cardinality(T) <= MaxShareRows},
        asc \in BOOLEAN }

\* What the provider returns to one call: per endpoint the frame it holds,
\* or a failure.
ProviderResponse(fail) ==
    [net_assets |-> Response(~fail.net_assets,
                             Frame({"ReportPeriod", "OwnersEquity"}, prov.net_assets)),
     prices |-> Response(~fail.prices, Frame(PriceCols, prov.prices)),
     shares |-> Response(~fail.shares, Frame(ProvSharesCols, prov.shares))]

\* The endpoints are called one after the other and the first failure ends
\* the call, so at most one of them fails in a call.
Failures ==
    {f \in [net_assets : BOOLEAN, prices : BOOLEAN, shares : BOOLEAN] :
        Cardinality({e \in {"net_assets", "prices", "shares"} : f[e]}) <= 1}

NoCall ==
    [op |-> "none", kind |-> "None", frame |-> EmptyFrame,
     fetched |-> {}, dbSame |-> TRUE, pbSame |-> TRUE, after |-> FALSE,
     cachedPB |-> FALSE,
     reports |-> EmptyFrame, reportsCached |-> FALSE,
     bars |-> EmptyFrame, barsCached |-> FALSE,
     shares |-> EmptyFrame, sharesCached |-> FALSE]

NoOutput == [set |-> FALSE, at |-> 0, rows |-> <<>>]
NoFn == [name |-> "none", args |-> <<>>, result |-> None]

Init ==
    /\ now = InitNow
    /\ prov \in [net_assets : ProviderReports, prices : ProviderPrices,
                 shares : ProviderShares]
    /\ db = init_database
    /\ last = NoCall
    /\ firstOut = NoOutput
    /\ fn = NoFn

\* One call of calculate_daily_pb(Code).  The history variable `last` also
\* keeps what each of the three lookups yields in the state the call starts
\* in (cache first, then provider), whether or not the call gets that far.
Call ==
    \E fail \in Failures :
        LET resp == ProviderResponse(fail)
            res == calculate_daily_pb(db, Code, now, resp)
            na == get_net_assets_per_quarter(db.net_assets, Code, now, resp.net_assets)
            pr == get_stock_price_data(db.stock_price, Code, now, resp.prices)
            sh == get_total_shares_history(db.total_shares_history, Code, resp.shares)
            computed == res.kind = "df" /\ res.fetched # {}
        IN /\ db' = res.db
           /\ last' = [op |-> "calculate_daily_pb",
                       kind |-> res.kind, frame |-> res.frame,
                       fetched |-> res.fetched, dbSame |-> (res.db = db),
                       pbSame |-> (res.db.daily_pb = db.daily_pb),
                       after |-> firstOut.set,
                       cachedPB |-> ~IsEmpty(get_pb_from_db(db.daily_pb, Code, now)),
                       reports |-> na.frame, reportsCached |-> ~na.fetched,
                       bars |-> pr.frame, barsCached |-> ~pr.fetched,
                       shares |-> sh.frame, sharesCached |-> ~sh.fetched]
           /\ firstOut' = IF ~firstOut.set /\ computed
                          THEN [set |-> TRUE, at |-> now, rows |-> res.frame.rows]
                          ELSE firstOut
           /\ UNCHANGED <<now, prov, fn>>

\* A day passes; `last` describes an operation only in the state it ends in.
Tick ==
    /\ now < MaxNow
    /\ now' = now + 1
    /\ last' = NoCall
    /\ UNCHANGED <<prov, db, firstOut, fn>>

Next == Call \/ Tick

Spec == Init /\ [][Next]_vars

----------------------------------------------------------------------------
(* The cache store on its own: one save on a store that earlier saves filled *)

\* The frames handed to a save: at most MaxBatch rows on distinct dates,
\* oldest first, or the frame without rows and columns (pd.DataFrame()).
\* bump distinguishes a later fetch of the same dates.
BatchDates == {T \in SUBSET Dates : Cardinality(T) <= MaxBatch}

PriceBatch(T, bump) ==
    LET q == DatesAsc(T)
    IN Frame(PriceCols, [i \in 1..Len(q) |->
           [date |-> q[i], close |-> Float(8 + 2 * q[i] + bump)]])

NetAssetsBatch(T, bump) ==
    LET q == DatesAsc(T)
    IN Frame(ProvNetAssetsCols, [i \in 1..Len(q) |->
           [ReportPeriod |-> q[i],
            OwnersEquity |-> EquityText(Float(5000 + bump), ""),
            NetAssetsYuan |-> Float(5000 + bump)]])

PBBatch(T, bump) ==
    LET q == DatesAsc(T)
    IN Frame(PBCols, [i \in 1..Len(q) |->
           PBRecord(<<[ReportPeriod |-> 1, OwnersEquity |-> EquityText(Float(5000), ""),
                       NetAssetsYuan |-> Float(5000)]>>,
                    q[i], Float(8 + 2 * q[i] + bump), SharesOn(1))])

\* A share-count batch may carry a change without a date (NaT).
SharesBatch(T, bump, undated) ==
    LET q == DatesAsc(T)
        dated == [i \in 1..Len(q) |->
                    [ChangeDate |-> q[i], TotalShares |-> Float(1000 + 500 * q[i] + bump)]]
    IN Frame(ProvSharesCols,
             IF undated
             THEN <<[ChangeDate |-> NaT, TotalShares |-> Float(1000 + bump)]>> \o dated
             ELSE dated)

\* The store after earlier saves, at clock InitNow, of the rows dated in T
\* for each code in C.
RECURSIVE SeededStore(_, _)
SeededStore(C, T) ==
    IF C = {} THEN init_database
    ELSE LET c == CHOOSE x \in C : TRUE
             s == SeededStore(C \ {c}, T)
         IN [stock_price |->
                 save_price_data_to_db(s.stock_price, c, PriceBatch(T, 0),
                                       InitNow, {}).table,
             net_assets |->
                 save_net_assets_to_db(s.net_assets, c, NetAssetsBatch(T, 0),
                                       InitNow, {}).table,
             daily_pb |->
                 save_pb_to_db(s.daily_pb, c, PBBatch(T, 0), InitNow, {}).table,
             total_shares_history |->
                 save_total_shares_history_to_db(
                     s.total_shares_history, c, SharesBatch(T, 0, FALSE), {}).table]

NoProvider == [net_assets |-> <<>>, prices |-> <<>>, shares |-> <<>>]

NoSave ==
    [op |-> "none", code |-> Code, raised |-> FALSE, errors |-> {},
     attempted |-> 0, batch |-> <<>>, before |-> {}, after |-> {},
     opened |-> 0, closed |-> 0]

StoreInit ==
    /\ now \in InitNow..MaxNow
    /\ db \in {SeededStore(C, T) : C \in SUBSET Codes, T \in BatchDates}
    /\ prov = NoProvider
    /\ last = NoSave
    /\ firstOut = NoOutput
    /\ fn = NoFn

\* The record of a save of the frame's rows and the tables after it.
AfterSave(op, code, tableName, sv, frame) ==
    /\ db' = [db EXCEPT ![tableName] = sv.table]
    /\ last' = [op |-> op, code |-> code, raised |-> sv.raised,
                errors |-> sv.errors, attempted |-> Len(frame.rows),
                batch |-> frame.rows,
                before |-> db[tableName], after |-> sv.table,
                opened |-> sv.opened, closed |-> sv.closed]
    /\ UNCHANGED <<now, prov, firstOut, fn>>

SavePriceData ==
    /\ last.op = "none"
    /\ \E code \in Codes, T \in BatchDates, bump \in 0..1,
          fails \in SUBSET (1..MaxBatch), bare \in BOOLEAN :
          LET frame == IF bare THEN EmptyFrame ELSE PriceBatch(T, bump)
          IN AfterSave("save_price_data_to_db", code, "stock_price",
                       save_price_data_to_db(db.stock_price, code, frame, now, fails),
                       frame)

SaveNetAssets ==
    /\ last.op = "none"
    /\ \E code \in Codes, T \in BatchDates, bump \in 0..1,
          fails \in SUBSET (1..MaxBatch), bare \in BOOLEAN :
          LET frame == IF bare THEN EmptyFrame ELSE NetAssetsBatch(T, bump)
          IN AfterSave("save_net_assets_to_db", code, "net_assets",
                       save_net_assets_to_db(db.net_assets, code, frame, now, fails),
                       frame)

SavePB ==
    /\ last.op = "none"
    /\ \E code \in Codes, T \in BatchDates, bump \in 0..1,
          fails \in SUBSET (1..MaxBatch), bare \in BOOLEAN :
          LET frame == IF bare THEN EmptyFrame ELSE PBBatch(T, bump)
          IN AfterSave("save_pb_to_db", code, "daily_pb",
                       save_pb_to_db(db.daily_pb, code, frame, now, fails),
                       frame)

SaveTotalSharesHistory ==
    /\ last.op = "none"
    /\ \E code \in Codes, T \in BatchDates, bump \in 0..1, undated \in BOOLEAN,
          fails \in SUBSET (1..MaxBatch), bare \in BOOLEAN :
          LET frame == IF bare THEN EmptyFrame ELSE SharesBatch(T, bump, undated)
          IN AfterSave("save_total_shares_history_to_db", code,
                       "total_shares_history",
                       save_total_shares_history_to_db(
                           db.total_shares_history, code, frame, fails),
                       frame)

StoreNext == SavePriceData \/ SaveNetAssets \/ SavePB \/ SaveTotalSharesHistory

SpecStore == StoreInit /\ [][StoreNext]_vars

----------------------------------------------------------------------------
(* The share-count resolver on its own *)

\* The histories calculate_daily_pb can hand to the resolver: the provider's
\* frame in the provider's row order, or the frame read back from the store
\* after that frame was saved.
RECURSIVE DistinctSeqs(_, _)
DistinctSeqs(S, n) ==
    IF n = 0 THEN {<<>>}
    ELSE {<<>>} \cup UNION {{<<x>> \o q : q \in DistinctSeqs(S \ {x}, n - 1)}
                            : x \in S}

ProviderHistories ==
    { Frame(ProvSharesCols,
            [i \in 1..Len(q) |-> [ChangeDate |-> q[i], TotalShares |-> SharesOn(q[i])]])
      : q \in DistinctSeqs(Dates, MaxDate) \ {<<>>} }

ReadBack(history) ==
    get_total_shares_history_from_db(
        save_total_shares_history_to_db({}, Code, history, {}).table, Code)

CachedHistories == {ReadBack(h) : h \in ProviderHistories}

Pending == [kind |-> "pending", value |-> NaN]

ResolverInit ==
    /\ now = InitNow
    /\ db = init_database
    /\ prov = NoProvider
    /\ last = NoSave
    /\ firstOut = NoOutput
    /\ fn \in [name : {"get_total_shares_for_date"},
               history : ProviderHistories \cup CachedHistories,
               target_date : Dates,
               result : {Pending}]

Resolve ==
    /\ fn.result = Pending
    /\ fn' = [fn EXCEPT !.result =
                 get_total_shares_for_date(fn.history, fn.target_date)]
    /\ UNCHANGED <<now, prov, db, last, firstOut>>

ResolverNext == Resolve

SpecResolver == ResolverInit /\ [][ResolverNext]_vars

----------------------------------------------------------------------------
(* Claims about the share-count resolver (SpecResolver) *)

Resolved == fn.name = "get_total_shares_for_date" /\ fn.result # Pending

\* The entries of a history as (date, shares) pairs, whatever its columns.
Entries(history) ==
    { IF "ChangeDate" \in history.columns
      THEN [date |-> history.rows[i].ChangeDate, shares |-> history.rows[i].TotalShares]
      ELSE [date |-> history.rows[i].change_date, shares |-> history.rows[i].total_shares]
      : i \in 1..Len(history.rows) }

AtOrBefore(history, target) == {e \in Entries(history) : e.date <= target}
LatestOf(E) == CHOOSE e \in E : \A x \in E : x.date <= e.date
EarliestOf(E) == CHOOSE e \in E : \A x \in E : e.date <= x.date

\* C2: whenever some entry of the history is dated at or before the target,
\* the resolver returns the total_shares of the latest such entry.
C2_LatestAtOrBefore ==
    (Resolved /\ AtOrBefore(fn.history, fn.target_date) # {})
        => fn.result = Value(LatestOf(AtOrBefore(fn.history, fn.target_date)).shares)

\* C3: when the history is not empty and every entry is dated after the
\* target, the resolver returns the total_shares of the earliest entry.
C3_EarliestFallback ==
    (Resolved /\ Entries(fn.history) # {}
              /\ AtOrBefore(fn.history, fn.target_date) = {})
        => fn.result = Value(EarliestOf(Entries(fn.history)).shares)

----------------------------------------------------------------------------
(* Claims about calculate_daily_pb (Spec) *)

Called == last.op = "calculate_daily_pb"
\* The call returned a frame; it computed it, or read it from daily_pb.
Emitted == Called /\ last.kind = "df"
Computed == Emitted /\ ~last.cachedPB
Records == {last.frame.rows[i] : i \in 1..Len(last.frame.rows)}
ReportDates == {last.reports.rows[i].ReportPeriod : i \in 1..Len(last.reports.rows)}

\* C1: every emitted record with a report date has report_date <= date, and
\* no report the call obtained is dated after report_date and at or before
\* the record's date.
C1_AsOfReport ==
    Emitted =>
        \A r \in Records :
            r.report_date # NaT =>
                /\ r.report_date <= r.date
                /\ ~last.cachedPB =>
                       \A d \in ReportDates : ~(r.report_date < d /\ d <= r.date)

\* C1 witness: a computed record whose report is chosen among an earlier
\* report and a report dated after the bar.
C1_Witness ==
    /\ Computed
    /\ \E r \in Records :
           /\ r.report_date # NaT
           /\ \E d \in ReportDates : d < r.report_date
           /\ \E d \in ReportDates : d > r.date

\* x = a * b and x = a / b on finite floats, by cross multiplication.
IsProduct(x, a, b) == x.n * (a.d * b.d) = x.d * (a.n * b.n)
IsQuotient(x, a, b) == x.n * (a.d * b.n) = x.d * (a.n * b.d)

\* C6: every emitted record with an applicable report has market_cap =
\* close_price * total_shares, and pb = market_cap / net_assets when
\* net_assets is not 0; when net_assets is 0 pb is NaN; pb is never infinite.
C6_PBArithmetic ==
    Emitted =>
        \A r \in Records :
            r.report_date # NaT =>
                /\ IsFinite(r.market_cap)
                /\ IsProduct(r.market_cap, r.close_price, r.total_shares)
                /\ ~IsInf(r.pb)
                /\ (IsFinite(r.net_assets) /\ r.net_assets.n # 0)
                       => (IsFinite(r.pb)
                           /\ IsQuotient(r.pb, r.market_cap, r.net_assets))
                /\ (IsFinite(r.net_assets) /\ r.net_assets.n = 0) => IsNaN(r.pb)
                /\ IsNaN(r.net_assets) => IsNaN(r.pb)

\* C6 witness: one series holds the record close 10, shares 1000, net assets
\* 5000, market cap 10000, pb 2, and a record whose net assets are 0.
C6_Witness ==
    /\ Computed
    /\ \E r \in Records :
           /\ r.close_price = Float(10) /\ r.total_shares = Float(1000)
           /\ r.net_assets = Float(5000) /\ r.market_cap = Float(10000)
           /\ r.pb = Float(2)
    /\ \E r \in Records :
           r.report_date # NaT /\ r.net_assets = Float(0) /\ IsNaN(r.pb)

\* C7: a computed series has one record per price bar, in the bars' order
\* and with the bars' dates and closes; a bar with no report dated at or
\* before it has a share count and no market_cap, net_assets, report_date
\* or pb.
C7_OneRecordPerBar ==
    Computed =>
        /\ Len(last.frame.rows) = Len(last.bars.rows)
        /\ \A i \in 1..Len(last.frame.rows) :
               LET r == last.frame.rows[i]
                   bar == last.bars.rows[i]
               IN /\ r.date = bar.date
                  /\ r.close_price = bar.close
                  /\ IsFinite(r.total_shares)
                  /\ r.total_shares \in {e.shares : e \in Entries(last.shares)}
                  /\ (\A d \in ReportDates : d > bar.date)
                         => /\ IsNaN(r.market_cap) /\ IsNaN(r.net_assets)
                            /\ r.report_date = NaT /\ IsNaN(r.pb)
        /\ \A i, j \in 1..Len(last.frame.rows) :
               i # j => last.frame.rows[i].date # last.frame.rows[j].date

\* C7 witness: a computed series whose first bar has no report yet and
\* whose later bar has one.
C7_Witness ==
    /\ Computed
    /\ Len(last.frame.rows) >= 2
    /\ last.frame.rows[1].report_date = NaT
    /\ last.frame.rows[Len(last.frame.rows)].report_date # NaT

\* A call made after an earlier call computed and persisted a series.
LaterCall == Called /\ last.after

SameAsFirst ==
    /\ last.kind = "df"
    /\ last.frame.rows = firstOut.rows
    /\ last.fetched = {}
    /\ last.dbSame

\* C4 as claimed: every call after the one that computed and persisted a
\* non-empty series returns that series again, calls no provider endpoint
\* and leaves the store as it was.
C4_LaterCallsRepeat == LaterCall => SameAsFirst

\* The records of the first output are all still inside the retention
\* window at the present clock.
FirstStillRetained ==
    \A i \in 1..Len(firstOut.rows) :
        firstOut.rows[i].date >= get_five_years_ago(now)

\* C4 as amended: a later call made while every record of the first output
\* is still inside the retention window returns that series again, calls no
\* provider endpoint and leaves the store as it was; once the clock has moved
\* a record out of the window, the call returns only the records still
\* inside it, in date order, as long as there is one.
C4_LaterCallsRepeatWhileRetained ==
    LaterCall =>
        /\ FirstStillRetained => SameAsFirst
        /\ (\E i \in 1..Len(firstOut.rows) :
                firstOut.rows[i].date >= get_five_years_ago(now))
               => LET Kept(r) == r.date >= get_five_years_ago(now)
                  IN /\ last.kind = "df"
                     /\ last.frame.rows = SelectSeq(firstOut.rows, Kept)
                     /\ last.fetched = {}
                     /\ last.dbSame

\* C4 witness: a later call has returned the first output, a series of
\* several records, from the store.
C4_Witness ==
    /\ LaterCall
    /\ last.cachedPB
    /\ Len(firstOut.rows) >= 2
    /\ \E i \in 1..Len(firstOut.rows) : firstOut.rows[i].report_date = NaT
    /\ \E i \in 1..Len(firstOut.rows) : IsNaN(firstOut.rows[i].pb)
    /\ last.frame.rows = firstOut.rows

\* The frames a call works on, in the provider's columns whatever their
\* source.
ReportsInProviderColumns(frame) ==
    IF ProvNetAssetsCols \subseteq frame.columns THEN frame.rows
    ELSE [i \in 1..Len(frame.rows) |->
            [ReportPeriod |-> frame.rows[i].report_date,
             OwnersEquity |-> frame.rows[i].equity,
             NetAssetsYuan |-> frame.rows[i].net_assets]]

SharesInProviderColumns(frame) ==
    IF ProvSharesCols \subseteq frame.columns THEN frame
    ELSE Frame(ProvSharesCols,
               [i \in 1..Len(frame.rows) |->
                   [ChangeDate |-> frame.rows[i].change_date,
                    TotalShares |-> frame.rows[i].total_shares]])

\* The series the join yields on the records of the three frames.
SeriesOf(reports, bars, shares) ==
    DailyLoop(bars.rows, SharesInProviderColumns(shares),
              SortValues(ReportsInProviderColumns(reports), "ReportPeriod", TRUE),
              1, <<>>).rows

\* The rows of daily_pb stored for the instrument, as read back.
StoredSeries == get_pb_from_db(db.daily_pb, Code, now).rows

\* C5: with no PB series cached, a call for which reports, bars and share
\* history are each to be had, from the store or from the provider, returns
\* and persists the series of those records, whichever the source of each.
C5_SameSeriesFromCacheOrProvider ==
    (Called /\ ~last.cachedPB /\ ~IsEmpty(last.reports) /\ ~IsEmpty(last.bars)
            /\ ~IsEmpty(last.shares))
        => /\ last.kind = "df"
           /\ last.frame.rows = SeriesOf(last.reports, last.bars, last.shares)
           /\ StoredSeries = last.frame.rows

\* C8: with no PB series cached, a call for which the reports or the bars
\* are not to be had, from the store or from the provider, returns None,
\* raises nothing and leaves daily_pb as it was.
C8_NoneWhenDataUnavailable ==
    (Called /\ ~last.cachedPB /\ (IsEmpty(last.reports) \/ IsEmpty(last.bars)))
        => (last.kind = "None" /\ last.pbSame)

\* A call for which reports and bars are to be had but no share-count
\* history, in the store or at the provider.
NoHistory ==
    /\ Called /\ ~last.cachedPB
    /\ ~IsEmpty(last.reports)
    /\ ~IsEmpty(last.bars)
    /\ IsEmpty(last.shares)

\* Such a call whose reports came from the provider.
NoHistoryAtLookup == NoHistory /\ ~last.reportsCached

\* C9 as claimed: when no share-count record is to be had, the bars are
\* skipped one by one, the series is not given up, and what results is
\* persisted and returned.
C9_SkipsUnresolvedBars == NoHistory => last.kind = "df"

\* C9 as amended: when no share-count record is to be had the whole series
\* is given up: the call returns no series and stores no PB row, and with
\* the reports fresh from the provider what it returns is None; and no bar
\* of a computed series is ever skipped.
C9_AbortsWithoutHistory ==
    /\ NoHistory => (last.kind # "df" /\ last.pbSame)
    /\ NoHistoryAtLookup => last.kind = "None"
    /\ Computed => Len(last.frame.rows) = Len(last.bars.rows)

\* C9 witness: a call found reports and bars but no share-count history,
\* after fetching the first two from the provider.
C9_Witness ==
    /\ NoHistoryAtLookup
    /\ "shares" \in last.fetched
    /\ Len(last.bars.rows) >= 2
    /\ last.kind = "None"

----------------------------------------------------------------------------
(* Claims about the cache store (SpecStore) *)

SaveOps == {"save_price_data_to_db", "save_net_assets_to_db", "save_pb_to_db",
            "save_total_shares_history_to_db"}

\* C10: a save in which the INSERT of some row fails commits no row of its
\* batch: the table is after the save what it was before.
C10_FailedBatchCommitsNothing ==
    (last.op \in SaveOps /\ last.errors # {}) => last.after = last.before


FilteredSaves == {"save_price_data_to_db", "save_net_assets_to_db", "save_pb_to_db"}

\* The date column of the table a save writes.
KeyOf(op) ==
    IF op = "save_net_assets_to_db" THEN NetAssetsKey
    ELSE IF op = "save_total_shares_history_to_db" THEN SharesKey
    ELSE PriceKey

\* The date of row i of the batch handed to the save.
BatchDate(op, i) ==
    IF op = "save_net_assets_to_db" THEN last.batch[i].ReportPeriod
    ELSE IF op = "save_total_shares_history_to_db" THEN last.batch[i].ChangeDate
    ELSE last.batch[i].date

\* The rows the save inserted, and the rows stored under the saved code and
\* a date.
Inserted == last.after \ last.before
StoredAt(table, code, key, d) ==
    {r \in table : r.stock_code = code /\ ~r[key].null /\ r[key].v = d}

\* C11: every row a price, net-asset or PB save inserts is dated no earlier
\* than the time of the save minus 5*365 days, so a record older than that
\* is never inserted; a share-count save stores every dated record of its
\* batch whatever its age.
C11_RetentionOnSave ==
    /\ last.op \in FilteredSaves =>
          \A r \in Inserted :
              /\ ~r[KeyOf(last.op)].null
              /\ r[KeyOf(last.op)].v >= now - RetentionDays
    /\ (last.op = "save_total_shares_history_to_db" /\ ~last.raised) =>
          \A i \in 1..Len(last.batch) :
              (i \notin last.errors) =>
                  StoredAt(last.after, last.code, SharesKey,
                           BatchDate(last.op, i)) # {}

\* C11 witness: a price save of a batch with a bar older than the window and
\* a bar inside it inserted the latter only.
C11_Witness ==
    /\ last.op = "save_price_data_to_db"
    /\ last.errors = {}
    /\ \E i \in 1..Len(last.batch) : last.batch[i].date < now - RetentionDays
    /\ Cardinality(Inserted) = 1
    /\ Len(last.batch) = 2

\* The stored row of every key is unique, in the four tables.
OneRowPerKey(table, key) ==
    \A r1, r2 \in table :
        (r1.stock_code = r2.stock_code /\ r1[key] = r2[key]) => r1 = r2

\* C12: a price, net-asset or PB save leaves every row already stored as it
\* was; a share-count save leaves under each key of its batch the fields it
\* was handed, replacing what was stored; and no table ever holds two rows
\* for one (code, date).
C12_IgnoreOrReplaceOnConflict ==
    /\ last.op \in FilteredSaves => last.before \subseteq last.after
    /\ (last.op = "save_total_shares_history_to_db" /\ ~last.raised) =>
          \A i \in 1..Len(last.batch) :
              (i \notin last.errors) =>
                  StoredAt(last.after, last.code, SharesKey, BatchDate(last.op, i))
                      = {[stock_code |-> last.code,
                          change_date |-> SqlDate(last.batch[i].ChangeDate),
                          total_shares |-> SqlReal(last.batch[i].TotalShares)]}
    /\ OneRowPerKey(db.stock_price, PriceKey)
    /\ OneRowPerKey(db.net_assets, NetAssetsKey)
    /\ OneRowPerKey(db.daily_pb, PBKey)
    /\ OneRowPerKey(db.total_shares_history, SharesKey)

\* C12 witness: a share-count save replaced the fields stored under a key.
C12_Witness ==
    /\ last.op = "save_total_shares_history_to_db"
    /\ last.errors = {}
    /\ \E r \in last.before : r \notin last.after
    /\ Cardinality(last.after) = Cardinality(last.before)

\* The dates of a frame's rows rise, or fall, strictly.
StrictlyAscending(rows, col) ==
    \A i \in 1..Len(rows) - 1 : rows[i][col] < rows[i + 1][col]
StrictlyDescending(rows, col) ==
    \A i \in 1..Len(rows) - 1 : rows[i][col] > rows[i + 1][col]

\* Every row of the frame read back for a code is a row stored under it.
FromCode(frame, table, c, col, key) ==
    /\ Len(frame.rows) <= Cardinality({r \in table : r.stock_code = c})
    /\ \A i \in 1..Len(frame.rows) :
           StoredAt(table, c, key, frame.rows[i][col]) # {}

\* C13: a read-back for a code returns rows stored under that code only, a
\* save for a code leaves the rows of the other codes as they were, and the
\* rows come back with strictly rising dates (prices, PB) or strictly
\* falling dates (net assets, share counts).
C13_PerCodeAndOrdered ==
    /\ \A c \in Codes :
         LET price == get_price_data_from_db(db.stock_price, c, now)
             pb == get_pb_from_db(db.daily_pb, c, now)
             na == get_net_assets_from_db(db.net_assets, c, now)
             sh == get_total_shares_history_from_db(db.total_shares_history, c)
         IN /\ FromCode(price, db.stock_price, c, "date", PriceKey)
            /\ FromCode(pb, db.daily_pb, c, "date", PBKey)
            /\ FromCode(na, db.net_assets, c, "report_date", NetAssetsKey)
            /\ FromCode(sh, db.total_shares_history, c, "change_date", SharesKey)
            /\ StrictlyAscending(price.rows, "date")
            /\ StrictlyAscending(pb.rows, "date")
            /\ StrictlyDescending(na.rows, "report_date")
            /\ StrictlyDescending(sh.rows, "change_date")
    /\ last.op \in SaveOps =>
          {r \in last.after : r.stock_code # last.code}
              = {r \in last.before : r.stock_code # last.code}

\* C13 witness: after a save for the second code changed its table, the
\* first code's prices read back as the two bars stored for it.
C13_Witness ==
    /\ last.op = "save_price_data_to_db"
    /\ last.code # Code
    /\ last.after # last.before
    /\ \E r \in db.stock_price : r.stock_code # Code
    /\ Len(get_price_data_from_db(db.stock_price, Code, now).rows) = 2

----------------------------------------------------------------------------
(* The per-quarter composite on its own: one quarter of holdings over a *)
(* store of constituents' PB series                                       *)

\* The two constituents and their weights: A 0.6, B 0.4.
StockA == Code
StockB == "600000"
HoldingA == [stock_code |-> StockA, weight |-> Rat(3, 5)]
HoldingB == [stock_code |-> StockB, weight |-> Rat(2, 5)]
QuarterHoldings ==
    {<<HoldingA>>, <<HoldingB>>, <<HoldingA, HoldingB>>, <<HoldingB, HoldingA>>}

\* The net assets behind a stored PB: A's bars close at 10 and B's at 12 on
\* 1000 shares; net assets 5000 and 4000 give PB 2 and 3, -10000 a negative
\* PB, 0 an undefined one.
StockClose(code) == IF code = StockA THEN Float(10) ELSE Float(12)
StockNetAssets(code) ==
    LET positive == IF code = StockA THEN Float(5000) ELSE Float(4000)
    IN <<positive, positive, Float(0), Float(-10000)>>

\* The PB series stored for a constituent: a record on each date of S, the
\* net assets of successive dates taken in turn from StockNetAssets.
StoredPBSeries(code, S, k) ==
    LET q == DatesAsc(S)
    IN Frame(PBCols, [i \in 1..Len(q) |->
          PBRecord(<<[ReportPeriod |-> 1,
                      OwnersEquity |-> EquityText(Float(0), ""),
                      NetAssetsYuan |-> StockNetAssets(code)[((q[i] + k) % 4) + 1]]>>,
                   q[i], StockClose(code), Float(1000))])

PBStores ==
    { [init_database EXCEPT !.daily_pb =
          save_pb_to_db(
              save_pb_to_db({}, StockA, StoredPBSeries(StockA, SA, ka), InitNow, {}).table,
              StockB, StoredPBSeries(StockB, SB, kb), InitNow, {}).table]
      : SA \in SUBSET Dates, SB \in SUBSET Dates, ka \in 0..3, kb \in 0..3 }

\* Quarter labels: the first two quarters of BaseYear, a label with quarter
\* digit 5 and a label without year or quarter.
QuarterNames ==
    {QuarterLabel(BaseYear, 1), QuarterLabel(BaseYear, 2),
     QuarterLabel(BaseYear, 5), <<"Detail">>}

PendingSeries == [kind |-> "pending", rows |-> <<>>]

QuarterInit ==
    /\ now = InitNow
    /\ db \in PBStores
    /\ prov = NoProvider
    /\ last = NoCall
    /\ firstOut = NoOutput
    /\ fn \in [name : {"calculate_single_quarter_etf_pb_time_series"},
               quarter_data : QuarterHoldings,
               quarter_name : QuarterNames,
               result : {PendingSeries}]

ComputeQuarter ==
    /\ fn.name = "calculate_single_quarter_etf_pb_time_series"
    /\ fn.result = PendingSeries
    /\ fn' = [fn EXCEPT !.result =
                 calculate_single_quarter_etf_pb_time_series(
                     db.daily_pb, fn.quarter_data, fn.quarter_name, now)]
    /\ UNCHANGED <<now, prov, db, last, firstOut>>

QuarterNext == ComputeQuarter

SpecQuarter == QuarterInit /\ [][QuarterNext]_vars

----------------------------------------------------------------------------
(* Claims about the per-quarter composite (SpecQuarter) *)

QuarterDone ==
    /\ fn.name = "calculate_single_quarter_etf_pb_time_series"
    /\ fn.result # PendingSeries

\* The quarter of the call, when its label names one.
NamesQuarter ==
    /\ extract_year_from_quarter(fn.quarter_name) # NoMatch
    /\ extract_quarter_number(fn.quarter_name) \in 1..4
CallQuarterStart ==
    QuarterStart(extract_year_from_quarter(fn.quarter_name),
                 extract_quarter_number(fn.quarter_name))
CallQuarterEnd ==
    QuarterEnd(extract_year_from_quarter(fn.quarter_name),
               extract_quarter_number(fn.quarter_name))

\* The PB rows stored for a constituent on a date, and the constituents of
\* the quarter with a defined PB, and with a defined and positive PB, on it.
PBRowsOn(code, d) == StoredAt(db.daily_pb, code, PBKey, d)
PBOn(code, d) == ToFloat((CHOOSE r \in PBRowsOn(code, d) : TRUE).pb)
HasDefinedPB(h, d) == PBRowsOn(h.stock_code, d) # {} /\ ~IsNaN(PBOn(h.stock_code, d))
HasPositivePB(h, d) == HasDefinedPB(h, d) /\ PBOn(h.stock_code, d).n > 0
WithDefinedPB(d) ==
    {i \in 1..Len(fn.quarter_data) : HasDefinedPB(fn.quarter_data[i], d)}
WithPositivePB(d) ==
    {i \in 1..Len(fn.quarter_data) : HasPositivePB(fn.quarter_data[i], d)}

\* Sum of weight * pb and sum of weight over the holdings rows in I.
RECURSIVE WeightedPBSum(_, _)
WeightedPBSum(I, d) ==
    IF I = {} THEN Float(0)
    ELSE LET i == CHOOSE x \in I : TRUE
             h == fn.quarter_data[i]
         IN FAdd(FMul(h.weight, PBOn(h.stock_code, d)), WeightedPBSum(I \ {i}, d))
RECURSIVE WeightSum(_)
WeightSum(I) ==
    IF I = {} THEN Float(0)
    ELSE LET i == CHOOSE x \in I : TRUE
         IN FAdd(fn.quarter_data[i].weight, WeightSum(I \ {i}))

\* A composite point is the weighted mean over the holdings rows in I.
IsMeanOver(point, I) ==
    /\ point.total_weight = WeightSum(I)
    /\ point.valid_stocks_count = Cardinality(I)
    /\ point.pb = FDiv(WeightedPBSum(I, point.date), WeightSum(I))

\* C14 as claimed: every composite point is the weighted mean over exactly
\* the constituents with a defined PB on its date, with their total weight
\* and their number.
C14_WeightedMeanOverDefined ==
    QuarterDone =>
        \A i \in 1..Len(fn.result.rows) :
            IsMeanOver(fn.result.rows[i], WithDefinedPB(fn.result.rows[i].date))

\* C14 as amended: every composite point is the weighted mean over exactly
\* the constituents whose PB on its date is defined and positive, with their
\* total weight and their number; a constituent whose PB that day is zero
\* or negative is left out like one without data.
C14_WeightedMeanOverPositive ==
    QuarterDone =>
        \A i \in 1..Len(fn.result.rows) :
            IsMeanOver(fn.result.rows[i], WithPositivePB(fn.result.rows[i].date))

\* C14 witness: A (0.6, PB 2) and B (0.4, PB 3) give 2.4 on one date, and A
\* alone gives 2 with total weight 0.6 on another.
C14_Witness ==
    /\ QuarterDone
    /\ \E i \in 1..Len(fn.result.rows) :
          /\ fn.result.rows[i].pb = Rat(12, 5)
          /\ fn.result.rows[i].valid_stocks_count = 2
          /\ fn.result.rows[i].total_weight = Float(1)
    /\ \E i \in 1..Len(fn.result.rows) :
          /\ fn.result.rows[i].pb = Float(2)
          /\ fn.result.rows[i].valid_stocks_count = 1
          /\ fn.result.rows[i].total_weight = Rat(3, 5)

\* The in-quarter dates of the PB series of the quarter's constituents.
QuarterDates ==
    {d \in CallQuarterStart..CallQuarterEnd :
        \E i \in 1..Len(fn.quarter_data) :
            PBRowsOn(fn.quarter_data[i].stock_code, d) # {}}
EmittedOn(d) == \E i \in 1..Len(fn.result.rows) : fn.result.rows[i].date = d

\* C15: on every in-quarter date of the constituents' PB series a composite
\* point is emitted if and only if some constituent has a defined PB on that
\* date; a constituent without data that day does not suppress the point.
C15_PointIffSomeDefined ==
    (QuarterDone /\ NamesQuarter) =>
        \A d \in QuarterDates : EmittedOn(d) <=> (WithDefinedPB(d) # {})

----------------------------------------------------------------------------
(* Reading a holdings file on its own *)

\* The calendar quarters of the files: k = 0 is the first quarter of
\* BaseYear; a file discloses at most MaxDisclosed of the first MaxQuarters.
MaxQuarters == 6
MaxDisclosed == 3
YearOf(k) == BaseYear + (k \div 4)
NumOf(k) == (k % 4) + 1

\* The compositions a quarter can disclose: A 60% and B 40%; A 50% with a
\* row of B at 0%; B alone at 30%.
Compositions ==
    <<<<[stock_code |-> StockA, percent |-> Float(60)],
        [stock_code |-> StockB, percent |-> Float(40)]>>,
      <<[stock_code |-> StockA, percent |-> Float(50)],
        [stock_code |-> StockB, percent |-> Float(0)]>>,
      <<[stock_code |-> StockB, percent |-> Float(30)]>>>>

\* The rows a file holds for quarter k, its composition chosen by c.
DisclosedRows(k, c) ==
    LET comp == Compositions[((k + c) % 3) + 1]
    IN [i \in 1..Len(comp) |->
          [quarter |-> QuarterLabel(YearOf(k), NumOf(k)),
           stock_code |-> comp[i].stock_code,
           percent |-> comp[i].percent]]

\* The files: the disclosed quarters latest first, as the provider lists
\* them, or oldest first.
RECURSIVE FileRows(_, _, _)
FileRows(ks, c, i) ==
    IF i > Len(ks) THEN <<>>
    ELSE DisclosedRows(ks[i], c) \o FileRows(ks, c, i + 1)

HoldingsFiles ==
    {MissingFile} \cup
    { HoldingsFile(FileRows(IF asc THEN DatesAsc(K) ELSE DatesDesc(K), c, 1))
      : K \in {X \in SUBSET (0..MaxQuarters - 1) :
                  Cardinality(X) \in 1..MaxDisclosed},
        c \in 0..2, asc \in BOOLEAN }

HoldingsInit ==
    /\ now = InitNow
    /\ db = init_database
    /\ prov = NoProvider
    /\ last = NoCall
    /\ firstOut = NoOutput
    /\ fn \in [name : {"read_etf_holdings"}, file : HoldingsFiles,
               result : {PendingSeries}]

ReadHoldings ==
    /\ fn.name = "read_etf_holdings"
    /\ fn.result = PendingSeries
    /\ fn' = [fn EXCEPT !.result = read_etf_holdings(fn.file)]
    /\ UNCHANGED <<now, prov, db, last, firstOut>>

HoldingsNext == ReadHoldings

SpecHoldings == HoldingsInit /\ [][HoldingsNext]_vars

----------------------------------------------------------------------------
(* Claims about read_etf_holdings (SpecHoldings) *)

HoldingsRead == fn.name = "read_etf_holdings" /\ fn.result # PendingSeries

\* The holding entries of the file (its rows of positive weight) for quarter
\* k, as code and weight, in file order; and the quarters the file discloses.
EntriesOf(k) ==
    LET mine == SelectSeq(fn.file.rows,
                     LAMBDA r : r.quarter = QuarterLabel(YearOf(k), NumOf(k))
                                /\ r.percent.n > 0)
    IN [i \in 1..Len(mine) |->
          [stock_code |-> mine[i].stock_code,
           weight |-> Rat(mine[i].percent.n, mine[i].percent.d * 100)]]
DisclosedQuarters == {k \in 0..MaxQuarters - 1 : Len(EntriesOf(k)) > 0}

\* The rows of the result labelled with quarter k, as code and weight.
ResultOf(k) ==
    LET mine == SelectSeq(fn.result.rows,
                     LAMBDA r : r.quarter = QuarterLabel(YearOf(k), NumOf(k)))
    IN [i \in 1..Len(mine) |->
          [stock_code |-> mine[i].stock_code, weight |-> mine[i].weight]]

\* The quarters without disclosure between two disclosed ones, and the most
\* recent disclosed quarter before a quarter.
GapQuarters ==
    {k \in 0..MaxQuarters - 1 :
        /\ k \notin DisclosedQuarters
        /\ \E a, b \in DisclosedQuarters : a < k /\ k < b}
LastDisclosedBefore(k) ==
    CHOOSE a \in DisclosedQuarters :
        a < k /\ \A b \in DisclosedQuarters : b < k => b <= a

\* C16: in the result of read_etf_holdings every quarter without disclosure
\* between two disclosed quarters carries, under its own year and number,
\* exactly the codes and weights of the most recent disclosed quarter before
\* it, and every disclosed quarter carries its own entries.
C16_GapQuartersFilled ==
    (HoldingsRead /\ fn.file.exists) =>
        /\ fn.result.kind = "df"
        /\ \A k \in GapQuarters : ResultOf(k) = EntriesOf(LastDisclosedBefore(k))
        /\ \A k \in DisclosedQuarters : ResultOf(k) = EntriesOf(k)

\* C16 witness: a file disclosing two quarters with three quarters between
\* them, across the turn of the year, was read and the three were filled.
C16_Witness ==
    /\ HoldingsRead
    /\ DisclosedQuarters = {1, 5}
    /\ GapQuarters = {2, 3, 4}
    /\ Len(ResultOf(3)) = 2
    /\ ResultOf(4) = ResultOf(1)
    /\ ResultOf(5) # ResultOf(1)

----------------------------------------------------------------------------
(* The percentile rank on its own *)

\* Histories of at most MaxHistory values among 1..MaxPB, in any order and
\* with repeats, and the history 1, 2, ..., MaxPB.
MaxHistory == 3
MaxPB == 5
RECURSIVE HistoriesOfLen(_)
HistoriesOfLen(n) ==
    IF n = 0 THEN {<<>>}
    ELSE {Append(h, Float(v)) : h \in HistoriesOfLen(n - 1), v \in 1..MaxPB}
PBHistories ==
    UNION {HistoriesOfLen(n) : n \in 0..MaxHistory}
        \cup {[i \in 1..MaxPB |-> Float(i)]}
CurrentPBs == {Float(v) : v \in 0..MaxPB + 1} \cup {Rat(5, 2)}

PercentileInit ==
    /\ now = InitNow
    /\ db = init_database
    /\ prov = NoProvider
    /\ last = NoCall
    /\ firstOut = NoOutput
    /\ fn \in [name : {"calculate_percentile_rank"}, current_pb : CurrentPBs,
               pb_history : PBHistories, result : {Pending}]

ComputePercentile ==
    /\ fn.name = "calculate_percentile_rank"
    /\ fn.result = Pending
    /\ fn' = [fn EXCEPT !.result =
                 calculate_percentile_rank(fn.current_pb, fn.pb_history)]
    /\ UNCHANGED <<now, prov, db, last, firstOut>>

PercentileNext == ComputePercentile

SpecPercentile == PercentileInit /\ [][PercentileNext]_vars

----------------------------------------------------------------------------
(* Claims about calculate_percentile_rank (SpecPercentile) *)

PercentileDone == fn.name = "calculate_percentile_rank" /\ fn.result # Pending

\* The number of values of the history at or below the current one.
AtOrBelow ==
    Cardinality({i \in 1..Len(fn.pb_history) :
                    FLeq(fn.pb_history[i], fn.current_pb)})

\* C17: for a non-empty history the rank is the number of history values at
\* or below the current value, over the number of history values, times
\* 100, which is between 0 and 100; for an empty history it is None.
C17_PercentileRank ==
    PercentileDone =>
        IF Len(fn.pb_history) = 0 THEN fn.result = None
        ELSE /\ fn.result = Value(Rat(100 * AtOrBelow, Len(fn.pb_history)))
             /\ FLeq(Float(0), fn.result.value)
             /\ FLeq(fn.result.value, Float(100))

\* C17 witness: history 1, 2, 3, 4, 5 and current value 3 gave 60.
C17_Witness ==
    /\ PercentileDone
    /\ fn.pb_history = <<Float(1), Float(2), Float(3), Float(4), Float(5)>>
    /\ fn.current_pb = Float(3)
    /\ fn.result = Value(Float(60))

----------------------------------------------------------------------------
(* etf_pb_cal.py : time-series mode, latest-snapshot mode and the entry *)
(* point                                                                  *)

\* A constituent whose code begins with zeros.
StockC == "000001"

\* read_csv without dtype reads a column of digit strings as integers, and
\* astype(str) writes them back without their leading zeros.
CsvCode(text) == IF text = StockC THEN "1" ELSE text

\* etf_pb_cal.read_etf_holdings(etf_code) on the file of the ETF: every row
\* kept, weight = percent / 100.
cal_read_etf_holdings(file) ==
    IF ~file.exists THEN [kind |-> "None", rows |-> <<>>]
    ELSE [kind |-> "df",
          rows |-> [i \in 1..Len(file.rows) |->
                      [quarter |-> file.rows[i].quarter,
                       stock_code |-> CsvCode(file.rows[i].stock_code),
                       weight |-> FDiv(file.rows[i].percent, Float(100))]]]

\* etf_holdings[etf_holdings['季度'] == etf_holdings['季度'].iloc[-1]]: the
\* rows of the quarter of the last row.
LatestQuarterData(etf_holdings) ==
    SelectSeq(etf_holdings,
              LAMBDA r : r.quarter = etf_holdings[Len(etf_holdings)].quarter)

\* calculate_etf_pb_time_series(etf_code): the series, None, or the
\* exception.  Its two loops are those of the per-quarter series, over the
\* whole read-back of each constituent and without a quarter column.
calculate_etf_pb_time_series(table, file, t) ==
    LET Info(row) ==
            [data |-> get_pb_from_db(table, row.stock_code, t).rows,
             weight |-> row.weight,
             objects |-> \A r \in Range(get_pb_from_db(table, row.stock_code, t).rows) :
                             IsNaN(r.pb)]
        AllDates(all_stock_pb_data) ==
            SortedDates(UNION {{r.date : r \in Range(all_stock_pb_data[c].data)} :
                               c \in DOMAIN all_stock_pb_data})
        Columns(r) ==
            [date |-> r.date, pb |-> r.pb,
             valid_stocks_count |-> r.valid_stocks_count,
             total_weight |-> r.total_weight]
        Finish(loop) ==
            IF loop.kind # "df" THEN loop
            ELSE IF Len(loop.rows) = 0 THEN [kind |-> "None", rows |-> <<>>]
                 ELSE [kind |-> "df",
                       rows |-> [i \in 1..Len(loop.rows) |-> Columns(loop.rows[i])]]
        SecondLoop(available_stocks, all_stock_pb_data) ==
            Finish(QuarterLoop(available_stocks, all_stock_pb_data,
                               AllDates(all_stock_pb_data), <<>>, 1, <<>>))
        Last(found, code) ==
            CHOOSE i \in 1..Len(found) :
                /\ found[i].stock_code = code
                /\ \A j \in i + 1..Len(found) : found[j].stock_code # code
        FirstLoop(found) ==
            IF Len(found) = 0 THEN [kind |-> "None", rows |-> <<>>]
            ELSE SecondLoop([i \in 1..Len(found) |-> found[i].stock_code],
                            [code \in {r.stock_code : r \in Range(found)} |->
                                Info(found[Last(found, code)])])
        Series(etf_holdings) ==
            IF etf_holdings.kind = "None" THEN [kind |-> "None", rows |-> <<>>]
            ELSE FirstLoop(SelectSeq(LatestQuarterData(etf_holdings.rows),
                                     LAMBDA row : Len(Info(row).data) > 0))
    IN Series(cal_read_etf_holdings(file))

\* The analysis ranking the latest composite PB against the points before it
\* only.
analyze_etf_pb_time_series_EarlierHistory(table, file, t) ==
    LET Report(latest_pb, pb_history) ==
            IF Len(pb_history) = 0
            THEN [kind |-> "return", latest_pb |-> NaN, percentile_rank |-> None]
            ELSE [kind |-> "report",
                  latest_pb |-> latest_pb,
                  percentile_rank |->
                      calculate_percentile_rank(latest_pb, pb_history)]
        PBColumn(rows) == [i \in 1..Len(rows) - 1 |-> rows[i].pb]
        Analyze(etf_pb_series) ==
            IF etf_pb_series.kind = "TypeError"
            THEN [kind |-> "TypeError", latest_pb |-> NaN, percentile_rank |-> None]
            ELSE IF etf_pb_series.kind = "None" \/ Len(etf_pb_series.rows) = 0
                 THEN [kind |-> "return", latest_pb |-> NaN, percentile_rank |-> None]
                 ELSE Report(etf_pb_series.rows[Len(etf_pb_series.rows)].pb,
                             SelectSeq(PBColumn(etf_pb_series.rows),
                                       LAMBDA x : ~IsNaN(x)))
    IN Analyze(calculate_etf_pb_time_series(table, file, t))

\* analyze_etf_pb_time_series(etf_code): it reports the latest composite PB
\* and its percentile rank, returns without a report when there is no
\* series, or lets the exception of the series through.
NoReport(kind) == [kind |-> kind, latest_pb |-> NaN, percentile_rank |-> None]
analyze_etf_pb_time_series(table, file, t) ==
    LET Report(latest_pb, pb_history) ==
            IF Len(pb_history) = 0 THEN NoReport("return")
            ELSE [kind |-> "report",
                  latest_pb |-> latest_pb,
                  percentile_rank |->
                      calculate_percentile_rank(latest_pb, pb_history)]
        PBColumn(rows) == [i \in 1..Len(rows) |-> rows[i].pb]
        Analyze(etf_pb_series) ==
            IF etf_pb_series.kind = "TypeError" THEN NoReport("TypeError")
            ELSE IF etf_pb_series.kind = "None" \/ Len(etf_pb_series.rows) = 0
                 THEN NoReport("return")
                 ELSE Report(etf_pb_series.rows[Len(etf_pb_series.rows)].pb,
                             SelectSeq(PBColumn(etf_pb_series.rows),
                                       LAMBDA x : ~IsNaN(x)))
    IN Analyze(calculate_etf_pb_time_series(table, file, t))

\* The loop of get_latest_etf_pb over the rows of the latest quarter, from
\* row i on: pb_value is the pb of the last row of the read-back, None when
\* the read-back is empty, and a row counts when pb_value is neither None
\* nor NaN.
RECURSIVE LatestSums(_, _, _, _, _)
LatestSums(table, latest_quarter_data, t, i, acc) ==
    IF i > Len(latest_quarter_data) THEN acc
    ELSE LET row == latest_quarter_data[i]
             pb_data == get_pb_from_db(table, row.stock_code, t)
             pb_value == IF IsEmpty(pb_data) THEN NaN
                         ELSE pb_data.rows[Len(pb_data.rows)].pb
         IN LatestSums(table, latest_quarter_data, t, i + 1,
                IF ~IsNaN(pb_value)
                THEN [acc EXCEPT
                        !.weighted_pb_sum = FAdd(@, FMul(row.weight, pb_value)),
                        !.total_weight = FAdd(@, row.weight),
                        !.stock_count = @ + 1]
                ELSE acc)

\* get_latest_etf_pb(etf_code): the result dict, or None.
NoSnapshot ==
    [kind |-> "None", weighted_average_pb |-> NaN, total_weight |-> Float(0),
     stock_count |-> 0, total_stock_count |-> 0]
get_latest_etf_pb(table, file, t) ==
    LET Dict(sums, total_stock_count) ==
            IF FPositive(sums.total_weight)
            THEN [kind |-> "dict",
                  weighted_average_pb |->
                      FDiv(sums.weighted_pb_sum, sums.total_weight),
                  total_weight |-> sums.total_weight,
                  stock_count |-> sums.stock_count,
                  total_stock_count |-> total_stock_count]
            ELSE NoSnapshot
        OfQuarter(latest_quarter_data) ==
            Dict(LatestSums(table, latest_quarter_data, t, 1,
                              [weighted_pb_sum |-> Float(0),
                               total_weight |-> Float(0),
                               stock_count |-> 0]),
                   Len(latest_quarter_data))
        OfHoldings(etf_holdings) ==
            IF etf_holdings.kind = "None" THEN NoSnapshot
            ELSE OfQuarter(LatestQuarterData(etf_holdings.rows))
    IN OfHoldings(cal_read_etf_holdings(file))

\* display_etf_pb_analysis(etf_code): time-series mode, and latest-snapshot
\* mode in the handler of an exception of time-series mode.
display_etf_pb_analysis(table, file, t) ==
    LET Handle(analysis) ==
            IF analysis.kind = "TypeError"
            THEN [analysis |-> analysis, fallback |-> TRUE,
                  result |-> get_latest_etf_pb(table, file, t)]
            ELSE [analysis |-> analysis, fallback |-> FALSE, result |-> NoSnapshot]
    IN Handle(analyze_etf_pb_time_series(table, file, t))

----------------------------------------------------------------------------
(* The ETF entry point on its own: a holdings file over a store of *)
(* constituents' PB series                                           *)

\* The compositions a quarter of these files can disclose: those of
\* Compositions and A 50% with C 50%.
CalCompositions ==
    Compositions \o
    <<<<[stock_code |-> StockA, percent |-> Float(50)],
        [stock_code |-> StockC, percent |-> Float(50)]>>>>

\* The rows of a file: the quarters ks in file order, quarter k with the
\* composition chosen by c.
RECURSIVE CalFileRows(_, _, _)
CalFileRows(ks, c, i) ==
    IF i > Len(ks) THEN <<>>
    ELSE LET comp == CalCompositions[((ks[i] + c) % 4) + 1]
         IN [j \in 1..Len(comp) |->
                [quarter |-> QuarterLabel(YearOf(ks[i]), NumOf(ks[i])),
                 stock_code |-> comp[j].stock_code,
                 percent |-> comp[j].percent]]
            \o CalFileRows(ks, c, i + 1)

\* The files: missing, one quarter, or two quarters in either order.
CalFiles ==
    {MissingFile} \cup
    { HoldingsFile(CalFileRows(ks, c, 1))
      : ks \in {<<0>>, <<0, 1>>, <<1, 0>>}, c \in 0..3 }

\* The stores: any series of A, none, one or all dates of B, none or one
\* date of C.
CalStores ==
    { [init_database EXCEPT !.daily_pb =
          save_pb_to_db(
              save_pb_to_db(
                  save_pb_to_db({}, StockA, StoredPBSeries(StockA, SA, ka),
                                InitNow, {}).table,
                  StockB, StoredPBSeries(StockB, SB, 0), InitNow, {}).table,
              StockC, StoredPBSeries(StockC, SC, 0), InitNow, {}).table]
      : SA \in SUBSET Dates, ka \in 0..3, SB \in {{}, {1}, Dates},
        SC \in {{}, {1}} }

DisplayInit ==
    /\ now = InitNow
    /\ db \in CalStores
    /\ prov = NoProvider
    /\ last = NoCall
    /\ firstOut = NoOutput
    /\ fn \in [name : {"display_etf_pb_analysis", "get_latest_etf_pb"},
               file : CalFiles,
               result : {Pending}]

Display ==
    /\ fn.name = "display_etf_pb_analysis"
    /\ fn.result = Pending
    /\ fn' = [fn EXCEPT !.result = display_etf_pb_analysis(db.daily_pb, fn.file, now)]
    /\ UNCHANGED <<now, prov, db, last, firstOut>>

Snapshot ==
    /\ fn.name = "get_latest_etf_pb"
    /\ fn.result = Pending
    /\ fn' = [fn EXCEPT !.result = get_latest_etf_pb(db.daily_pb, fn.file, now)]
    /\ UNCHANGED <<now, prov, db, last, firstOut>>

DisplayNext == Display \/ Snapshot

SpecDisplay == DisplayInit /\ [][DisplayNext]_vars

----------------------------------------------------------------------------
(* Claims about the ETF entry point and latest-snapshot mode (SpecDisplay) *)

DisplayDone == fn.name = "display_etf_pb_analysis" /\ fn.result # Pending

\* C18: whenever time-series mode ends without a composite series, by an
\* exception or by a return without result, display_etf_pb_analysis has run
\* get_latest_etf_pb.
C18_FallbackOnEveryFailure ==
    DisplayDone =>
        (fn.result.analysis.kind # "report" => fn.result.fallback)

SnapshotDone == fn.name = "get_latest_etf_pb" /\ fn.result # Pending

\* The rows of the chronologically most recent quarter of the file of the
\* call, whatever the order of its rows.
MostRecentRows ==
    LET rows == fn.file.rows
        Rank(r) == 4 * extract_year_from_quarter(r.quarter)
                   + extract_quarter_number(r.quarter)
    IN SelectSeq(rows, LAMBDA r : \A i \in 1..Len(rows) : Rank(rows[i]) <= Rank(r))

\* The PB cell of the latest-dated record the store holds for a code.
LatestCached(code) ==
    LET recs == {r \in db.daily_pb : r.stock_code = code /\ ~r.date.null}
    IN IF recs = {} THEN SqlNull
       ELSE (CHOOSE r \in recs : \A s \in recs : s.date.v <= r.date.v).pb

\* The rows of the most recent quarter whose latest PB is defined.
WithLatestPB == SelectSeq(MostRecentRows, LAMBDA r : ~LatestCached(r.stock_code).null)

RECURSIVE SnapshotPBSum(_, _)
SnapshotPBSum(rows, i) ==
    IF i > Len(rows) THEN Float(0)
    ELSE FAdd(FMul(FDiv(rows[i].percent, Float(100)),
                   LatestCached(rows[i].stock_code).v),
              SnapshotPBSum(rows, i + 1))

RECURSIVE SnapshotWeightSum(_, _)
SnapshotWeightSum(rows, i) ==
    IF i > Len(rows) THEN Float(0)
    ELSE FAdd(FDiv(rows[i].percent, Float(100)), SnapshotWeightSum(rows, i + 1))

\* C19: get_latest_etf_pb on an existing file returns the mean of the latest
\* cached PB of the constituents of the chronologically most recent quarter
\* of the file that have a defined latest PB, weighted by their weights in
\* that quarter, whatever the order of the rows; it returns None when no
\* constituent of that quarter has a defined latest PB.
C19_LatestQuarterWeightedMean ==
    (SnapshotDone /\ fn.file.exists) =>
        IF Len(WithLatestPB) = 0 THEN fn.result = NoSnapshot
        ELSE /\ fn.result.kind = "dict"
             /\ fn.result.weighted_average_pb =
                    FDiv(SnapshotPBSum(WithLatestPB, 1),
                         SnapshotWeightSum(WithLatestPB, 1))

----------------------------------------------------------------------------
(* The net-asset normalizer on its own *)

\* The numeric parts: the multiples of 1/2 from -MaxEquity to MaxEquity,
\* and NaN for a part that is not a number.
MaxEquity == 5
EquityNumbers ==
    {Rat(n, d) : n \in -MaxEquity..MaxEquity, d \in {1, 2}} \cup {NaN}

\* The cells: text with or without a suffix, booleans, integers, floats
\* and None.
EquityValues ==
    {EquityText(x, sfx) : x \in EquityNumbers, sfx \in {"", "yi", "junk"}}
    \cup {EquityFalse, [type |-> "bool", num |-> Float(1), suffix |-> ""]}
    \cup {[type |-> "int", num |-> Float(n), suffix |-> ""] :
             n \in -MaxEquity..MaxEquity}
    \cup {[type |-> "float", num |-> x, suffix |-> ""] : x \in EquityNumbers}
    \cup {[type |-> "NoneType", num |-> NaN, suffix |-> ""]}

NumericInit ==
    /\ now = InitNow
    /\ db = init_database
    /\ prov = NoProvider
    /\ last = NoCall
    /\ firstOut = NoOutput
    /\ fn \in [name : {"convert_to_numeric"}, value : EquityValues,
               result : {Pending}]

ConvertToNumeric ==
    /\ fn.name = "convert_to_numeric"
    /\ fn.result = Pending
    /\ fn' = [fn EXCEPT !.result = Value(convert_to_numeric(fn.value))]
    /\ UNCHANGED <<now, prov, db, last, firstOut>>

NumericNext == ConvertToNumeric

SpecNumeric == NumericInit /\ [][NumericNext]_vars

----------------------------------------------------------------------------
(* Claims about convert_to_numeric (SpecNumeric) *)

NumericDone == fn.name = "convert_to_numeric" /\ fn.result # Pending

\* What the conversion owes for text: the numeric part times 100000000
\* under the hundred-million suffix, the number itself without a suffix,
\* NaN when the text is not a number or has another suffix.
TextConverted ==
    LET v == fn.value
        x == fn.result.value
    IN IF v.suffix = "junk" \/ IsNaN(v.num) THEN IsNaN(x)
       ELSE IF v.suffix = "yi"
            THEN IsFinite(x) /\ IsProduct(x, v.num, Float(100000000))
            ELSE x = v.num

\* C20 as stated: the conversion never raises, converts text as above and
\* returns NaN for every value that is not text.
C20_NonTextIsNaN ==
    NumericDone =>
        /\ fn.result.kind = "value"
        /\ IF fn.value.type = "str" THEN TextConverted
           ELSE IsNaN(fn.result.value)

\* C20 amended: the conversion never raises, converts text as above,
\* returns a boolean or a number as its float (False as 0, True as 1), and
\* returns NaN for None.
C20_ParsesOrNaN ==
    NumericDone =>
        /\ fn.result.kind = "value"
        /\ IF fn.value.type = "str" THEN TextConverted
           ELSE IF fn.value.type \in {"bool", "int", "float"}
                THEN fn.result.value = fn.value.num
                ELSE IsNaN(fn.result.value)

\* C20 witness: the text "-3" with the hundred-million suffix became
\* -300000000.
C20_Witness ==
    /\ NumericDone
    /\ fn.value = EquityText(Float(-3), "yi")
    /\ fn.result = Value(Float(-300000000))

----------------------------------------------------------------------------
(* Claims about the quarter's date range (SpecQuarter) *)

\* The store of the call without the PB records dated outside its quarter.
InQuarterStore ==
    {r \in db.daily_pb :
        ~r.date.null /\ r.date.v >= CallQuarterStart /\ r.date.v <= CallQuarterEnd}

\* C21: every point of the series of a quarter has its date inside the
\* quarter's range, and the PB records outside that range contribute to no
\* point: the series computed on the store without them has the same points.
C21_OnlyInQuarterRecords ==
    (QuarterDone /\ fn.result.kind = "df") =>
        /\ \A i \in 1..Len(fn.result.rows) :
              /\ fn.result.rows[i].date >= CallQuarterStart
              /\ fn.result.rows[i].date <= CallQuarterEnd
        /\ LET alone == calculate_single_quarter_etf_pb_time_series(
                            InQuarterStore, fn.quarter_data, fn.quarter_name, now)
           IN alone.kind = "df" => alone.rows = fn.result.rows

\* C21 witness: a series was emitted for a quarter one of whose constituents
\* has a record with a positive PB outside the quarter.
C21_Witness ==
    /\ QuarterDone
    /\ fn.result.kind = "df"
    /\ Len(fn.result.rows) > 0
    /\ \E r \in db.daily_pb \ InQuarterStore :
          /\ \E i \in 1..Len(fn.quarter_data) :
                fn.quarter_data[i].stock_code = r.stock_code
          /\ ~r.pb.null
          /\ r.pb.v.n > 0

----------------------------------------------------------------------------
(* etf_pb_store.py : the composite series over the quarters of a file *)

NoFrame == [kind |-> "None", rows |-> <<>>]

\* The append that keeps the new series alone.
append_pb_data_NewOnly(simple_pb_data, new_pb_data) ==
    IF new_pb_data.kind = "None" \/ Len(new_pb_data.rows) = 0 THEN NoFrame
    ELSE [kind |-> "df",
          rows |-> [i \in 1..Len(new_pb_data.rows) |->
                      [date |-> new_pb_data.rows[i].date,
                       pb |-> new_pb_data.rows[i].pb]]]

\* append_pb_data(simple_pb_data, new_pb_data): the [date, pb] columns of
\* the new series alone when there is no composite yet; otherwise the two
\* concatenated, sorted by date, and of the rows of one date the last kept.
append_pb_data(simple_pb_data, new_pb_data) ==
    LET DatePB(rows) ==
            [i \in 1..Len(rows) |-> [date |-> rows[i].date, pb |-> rows[i].pb]]
        IsNone(f) == f.kind = "None" \/ Len(f.rows) = 0
        Kept(rows) ==
            SortedDates({i \in 1..Len(rows) :
                            \A j \in i + 1..Len(rows) : rows[j].date # rows[i].date})
        Pick(rows, kept) == [k \in 1..Len(kept) |-> rows[kept[k]]]
        DropDuplicates(rows) == Pick(rows, Kept(rows))
    IN IF IsNone(simple_pb_data)
       THEN (IF IsNone(new_pb_data) THEN NoFrame
             ELSE [kind |-> "df", rows |-> DatePB(new_pb_data.rows)])
       ELSE IF IsNone(new_pb_data) THEN simple_pb_data
            ELSE [kind |-> "df",
                  rows |-> DropDuplicates(
                      SortValues(simple_pb_data.rows \o DatePB(new_pb_data.rows),
                                 "date", TRUE))]

\* analyze_quarterly_etf_pb(etf_code) before its first statement.
AnalyzeInit ==
    /\ now = InitNow
    /\ db \in CalStores
    /\ prov = NoProvider
    /\ last = NoCall
    /\ firstOut = NoOutput
    /\ fn \in [name : {"analyze_quarterly_etf_pb"}, file : CalFiles,
               pc : {"read"}, etf_holdings : {<<>>}, quarters : {<<>>},
               i : {1}, simple_pb_data : {NoFrame}, appended : {<<>>}]

\* Lines 471-479: the holdings are read; without them the function returns.
LoadHoldings ==
    /\ fn.name = "analyze_quarterly_etf_pb"
    /\ fn.pc = "read"
    /\ LET Load(etf_holdings) ==
               IF etf_holdings.kind = "None" \/ Len(etf_holdings.rows) = 0
               THEN [fn EXCEPT !.pc = "done"]
               ELSE [fn EXCEPT !.pc = "loop",
                               !.etf_holdings = etf_holdings.rows,
                               !.quarters = UniqueQuarters(etf_holdings.rows, 1)]
       IN fn' = Load(read_etf_holdings(fn.file))
    /\ UNCHANGED <<now, prov, db, last, firstOut>>

\* One pass of the loop of lines 485-491: the series of the next quarter is
\* computed and, if there is one, appended; its exception ends the function.
AppendQuarter ==
    /\ fn.name = "analyze_quarterly_etf_pb"
    /\ fn.pc = "loop"
    /\ fn.i <= Len(fn.quarters)
    /\ LET Step(pb_series) ==
               IF pb_series.kind = "TypeError" THEN [fn EXCEPT !.pc = "raised"]
               ELSE IF pb_series.kind = "df" /\ Len(pb_series.rows) > 0
                    THEN [fn EXCEPT
                            !.i = @ + 1,
                            !.simple_pb_data = append_pb_data(@, pb_series),
                            !.appended = Append(@, pb_series.rows)]
                    ELSE [fn EXCEPT !.i = @ + 1]
       IN fn' = Step(calculate_single_quarter_etf_pb_time_series(
                        db.daily_pb,
                        SelectSeq(fn.etf_holdings,
                                  LAMBDA r : r.quarter = fn.quarters[fn.i]),
                        fn.quarters[fn.i], now))
    /\ UNCHANGED <<now, prov, db, last, firstOut>>

\* Lines 493-495: after the loop the composite, if any, is plotted.
PlotComposite ==
    /\ fn.name = "analyze_quarterly_etf_pb"
    /\ fn.pc = "loop"
    /\ fn.i > Len(fn.quarters)
    /\ fn' = [fn EXCEPT !.pc = "done"]
    /\ UNCHANGED <<now, prov, db, last, firstOut>>

AnalyzeNext == LoadHoldings \/ AppendQuarter \/ PlotComposite

SpecAnalyze == AnalyzeInit /\ [][AnalyzeNext]_vars

----------------------------------------------------------------------------
(* Claims about the composite series (SpecAnalyze) *)

Analyzing == fn.name = "analyze_quarterly_etf_pb"

\* The appended series, by position, that have a point on date d.
AppendedOn(d) ==
    {k \in 1..Len(fn.appended) :
        \E j \in 1..Len(fn.appended[k]) : fn.appended[k][j].date = d}
PBOfAppended(k, d) ==
    fn.appended[k][CHOOSE j \in 1..Len(fn.appended[k]) :
                       fn.appended[k][j].date = d].pb

----------------------------------------------------------------------------
(* etf_pb_store.py : the per-quarter series merged into one daily curve *)

\* date.month as the quarter it lies in, and date.year, on the calendar.
QuarterOfDate(date) == (((date - 1) \div QuarterDays) % 4) + 1
YearOfDate(date) == BaseYear + ((date - 1) \div (4 * QuarterDays))

\* merge_quarterly_data_to_daily_curve(quarterly_pb_data, quarters_order):
\* quarterly_pb_data is a function from quarter labels to frames or None.
merge_quarterly_data_to_daily_curve(quarterly_pb_data, quarters_order) ==
    LET Named(q) ==
            {i \in 1..Len(quarters_order) :
                /\ extract_quarter_number(quarters_order[i]) = q
                /\ quarters_order[i] \in DOMAIN quarterly_pb_data}
        \* quarter_number_to_data[q]: the entry of the last label of
        \* quarters_order with quarter number q.
        DataOf(q) ==
            quarterly_pb_data[
                quarters_order[CHOOSE i \in Named(q) : \A j \in Named(q) : j <= i]]
        ValueOn(quarter_data, date) ==
            LET date_data == SelectSeq(quarter_data.rows, LAMBDA r : r.date = date)
                earlier_data == SelectSeq(quarter_data.rows, LAMBDA r : r.date <= date)
            IN IF Len(date_data) > 0 THEN Value(date_data[1].pb)
               ELSE IF Len(earlier_data) > 0
                    THEN Value(earlier_data[Len(earlier_data)].pb)
                    ELSE None
        PBValue(date) ==
            IF Named(QuarterOfDate(date)) = {} THEN None
            ELSE IF DataOf(QuarterOfDate(date)).kind = "None"
                    \/ Len(DataOf(QuarterOfDate(date)).rows) = 0
                 THEN None
                 ELSE ValueOn(DataOf(QuarterOfDate(date)), date)
        Daily(all_dates) ==
            LET hit == SelectSeq(all_dates, LAMBDA d : PBValue(d) # None)
            IN [i \in 1..Len(hit) |-> [date |-> hit[i], pb |-> PBValue(hit[i]).value]]
        Merged(daily_data) ==
            IF Len(daily_data) = 0 THEN NoFrame
            ELSE [kind |-> "df", rows |-> daily_data]
        all_dates ==
            UNION {{r.date : r \in Range(quarterly_pb_data[k].rows)} :
                      k \in DOMAIN quarterly_pb_data}
    IN IF DOMAIN quarterly_pb_data = {} \/ Len(quarters_order) = 0 THEN NoFrame
       ELSE IF all_dates = {} THEN NoFrame
            ELSE Merged(Daily(SortedDates(all_dates)))

----------------------------------------------------------------------------
(* The merge on its own: the series of up to three quarters of two years *)

\* The quarters: the first two of BaseYear and the first of the next year.
MergeQuarters ==
    {QuarterLabel(BaseYear, 1), QuarterLabel(BaseYear, 2),
     QuarterLabel(BaseYear + 1, 1)}

\* The series a quarter's computation can hand over: None, or points on
\* dates of the quarter in ascending order, all of pb 2 or all of pb 3.
SeriesOfQuarter(label) ==
    {NoFrame} \cup
    {[kind |-> "df",
      rows |-> [i \in 1..Len(SortedDates(S)) |->
                   [date |-> SortedDates(S)[i], pb |-> Float(v)]]] :
        S \in SUBSET (QuarterStart(extract_year_from_quarter(label),
                                   extract_quarter_number(label))
                      ..QuarterEnd(extract_year_from_quarter(label),
                                   extract_quarter_number(label))) \ {{}},
        v \in {2, 3}}

MergeInputs ==
    UNION {[quarterly_pb_data : {f \in [K -> UNION {SeriesOfQuarter(l) : l \in K}] :
                                    \A l \in K : f[l] \in SeriesOfQuarter(l)},
            quarters_order : {q \in DistinctSeqs(K, Cardinality(K)) :
                                 Len(q) = Cardinality(K)}] :
           K \in SUBSET MergeQuarters}

MergeInit ==
    /\ now = InitNow
    /\ db = init_database
    /\ prov = NoProvider
    /\ last = NoCall
    /\ firstOut = NoOutput
    /\ \E in \in MergeInputs :
          fn = [name |-> "merge_quarterly_data_to_daily_curve",
                quarterly_pb_data |-> in.quarterly_pb_data,
                quarters_order |-> in.quarters_order,
                result |-> PendingSeries]

MergeQuarterly ==
    /\ fn.name = "merge_quarterly_data_to_daily_curve"
    /\ fn.result = PendingSeries
    /\ fn' = [fn EXCEPT !.result =
                 merge_quarterly_data_to_daily_curve(fn.quarterly_pb_data,
                                                     fn.quarters_order)]
    /\ UNCHANGED <<now, prov, db, last, firstOut>>

MergeNext == MergeQuarterly

SpecMerge == MergeInit /\ [][MergeNext]_vars

----------------------------------------------------------------------------
(* Claims about the merged curve (SpecMerge) *)

MergeDone ==
    /\ fn.name = "merge_quarterly_data_to_daily_curve"
    /\ fn.result # PendingSeries

\* The dates of the series of a label, and the labels whose quarter covers
\* a date.
SeriesDates(label) == {r.date : r \in Range(fn.quarterly_pb_data[label].rows)}
Covering(d) ==
    {l \in DOMAIN fn.quarterly_pb_data :
        /\ extract_year_from_quarter(l) = YearOfDate(d)
        /\ extract_quarter_number(l) = QuarterOfDate(d)}

\* The value a series has on d, or on its nearest earlier date.
CarriedTo(label, d) ==
    LET at == {r \in Range(fn.quarterly_pb_data[label].rows) : r.date <= d}
    IN (CHOOSE r \in at : \A s \in at : s.date <= r.date).pb

\* C23: for every date of every input series the merged curve has a point
\* on that date, its pb the value the series of the quarter covering the
\* date has on it or on the nearest earlier date of that series.
C23_PointFromCoveringQuarter ==
    MergeDone =>
        \A l \in DOMAIN fn.quarterly_pb_data : \A d \in SeriesDates(l) :
            \E i \in 1..Len(fn.result.rows) :
                /\ fn.result.rows[i].date = d
                /\ \E c \in Covering(d) : fn.result.rows[i].pb = CarriedTo(c, d)

----------------------------------------------------------------------------
(* Claims about the connections of the cache store (SpecStore) *)

\* C24: every save operation has opened exactly one connection and closed
\* it by the time it ends, whether it returned or raised.
C24_OneConnectionClosed ==
    last.op \in SaveOps => (last.opened = 1 /\ last.closed = last.opened)
----------------------------------------------------------------------------
(* etf_pb_cal.py : latest-snapshot mode against the end of time-series mode *)

\* The file of the call discloses a single period.
SinglePeriod ==
    /\ fn.file.exists
    /\ Len(fn.file.rows) > 0
    /\ \A i \in 1..Len(fn.file.rows) : fn.file.rows[i].quarter = fn.file.rows[1].quarter

\* The dates of the records the store holds for a code.
CachedDates(code) ==
    {r.date.v : r \in {x \in db.daily_pb : x.stock_code = code /\ ~x.date.null}}

\* Every constituent of the file has a cached series, all ending on date d.
CommonEnd(d) ==
    \A i \in 1..Len(fn.file.rows) :
        /\ d \in CachedDates(fn.file.rows[i].stock_code)
        /\ \A e \in CachedDates(fn.file.rows[i].stock_code) : e <= d

\* The snapshot agrees with the series: both without result, or the snapshot's
\* weighted_average_pb is the pb of the last point of the series.
AgreesWithSeriesEnd(snapshot, series) ==
    IF snapshot.kind = "dict"
    THEN /\ series.kind = "df"
         /\ series.rows[Len(series.rows)].pb = snapshot.weighted_average_pb
    ELSE series.kind = "None"

\* C25: for a file with a single disclosure period whose constituents' cached
\* PB series all end on the same date, the weighted_average_pb of
\* get_latest_etf_pb is the pb of the last point of
\* calculate_etf_pb_time_series, whatever the constituents' PB values.
C25_SnapshotIsSeriesEnd ==
    (SnapshotDone /\ SinglePeriod /\ \E d \in Dates : CommonEnd(d)) =>
        AgreesWithSeriesEnd(fn.result,
                            calculate_etf_pb_time_series(db.daily_pb, fn.file, now))
----------------------------------------------------------------------------
(* stock_pbcal.py : the retention window and undefined net assets in the join *)

\* The period ends of the reports the provider holds, and those among them
\* inside the retention window at the present clock.
ProviderReportDates ==
    {prov.net_assets[i].ReportPeriod : i \in 1..Len(prov.net_assets)}
RetainedReportDates ==
    {d \in ProviderReportDates : d >= get_five_years_ago(now)}

\* The call computed its series from reports fetched from the provider.
ComputedFromProvider == Computed /\ ~last.reportsCached

\* C26: calculate_daily_pb chooses the as-of report only among the reports
\* inside the five-year retention window: every report date it emits is
\* inside the window, and a bar dated before every retained report has no
\* market_cap, net_assets, report_date or pb, whatever older reports the
\* provider returned.
C26_OnlyRetainedReports ==
    ComputedFromProvider =>
        \A r \in Records :
            /\ r.report_date # NaT => r.report_date \in RetainedReportDates
            /\ (\A d \in RetainedReportDates : d > r.date)
                   => /\ IsNaN(r.market_cap) /\ IsNaN(r.net_assets)
                      /\ r.report_date = NaT /\ IsNaN(r.pb)

\* C26 witness: a computed record without report although the provider
\* returned a report dated at or before the record's bar, which is older than
\* the window.
C26_Witness ==
    /\ ComputedFromProvider
    /\ \E r \in Records :
           /\ r.report_date = NaT /\ IsNaN(r.pb)
           /\ \E d \in ProviderReportDates :
                  d <= r.date /\ d < get_five_years_ago(now)
\* The reports the call obtained that are dated at or before date d, and the
\* latest of them.
ReportsAtOrBefore(d) ==
    {last.reports.rows[i] : i \in {j \in 1..Len(last.reports.rows) :
                                       last.reports.rows[j].ReportPeriod <= d}}
LatestAtOrBefore(d) ==
    CHOOSE x \in ReportsAtOrBefore(d) :
        \A y \in ReportsAtOrBefore(d) : y.ReportPeriod <= x.ReportPeriod

\* C27: when the latest report at or before a bar has undefined net assets,
\* the bar's record has that report's period as report_date and no net_assets
\* or pb, whether or not an earlier report has a defined value.
C27_NoFallbackToEarlierReport ==
    ComputedFromProvider =>
        \A r \in Records :
            (ReportsAtOrBefore(r.date) # {}
             /\ IsNaN(LatestAtOrBefore(r.date).NetAssetsYuan))
                => /\ r.report_date = LatestAtOrBefore(r.date).ReportPeriod
                   /\ IsNaN(r.net_assets)
                   /\ IsNaN(r.pb)

\* C27 witness: a record whose latest report does not parse while an earlier
\* report at or before the bar has defined net assets.
C27_Witness ==
    /\ ComputedFromProvider
    /\ \E r \in Records :
           /\ ReportsAtOrBefore(r.date) # {}
           /\ IsNaN(LatestAtOrBefore(r.date).NetAssetsYuan)
           /\ \E x \in ReportsAtOrBefore(r.date) :
                  /\ x.ReportPeriod < LatestAtOrBefore(r.date).ReportPeriod
                  /\ IsFinite(x.NetAssetsYuan) /\ x.NetAssetsYuan.n # 0
           /\ IsNaN(r.pb)
           /\ r.report_date = LatestAtOrBefore(r.date).ReportPeriod
----------------------------------------------------------------------------
(* etf_pb_store.py : the quarters of the result of read_etf_holdings *)

\* The quarter labels of the result in order of first appearance, and
\* whether the rows of each label stand together.
ResultQuarters == UniqueQuarters(fn.result.rows, 1)
EachQuarterOnce ==
    \A i, j \in 1..Len(fn.result.rows) :
        (i < j /\ fn.result.rows[i].quarter = fn.result.rows[j].quarter)
            => \A l \in i..j : fn.result.rows[l].quarter = fn.result.rows[i].quarter

\* The earliest disclosed quarter and the fourth quarter of the latest
\* disclosed year, counted from the first quarter of BaseYear.
EarliestDisclosed ==
    CHOOSE a \in DisclosedQuarters : \A b \in DisclosedQuarters : a <= b
LastOfLatestYear ==
    LET latest == CHOOSE a \in DisclosedQuarters :
                      \A b \in DisclosedQuarters : b <= a
    IN 4 * (latest \div 4) + 3

\* C28: the quarters of the result of read_etf_holdings are the calendar
\* quarters from the earliest disclosed quarter through the fourth quarter
\* of the latest disclosed year, each once and in chronological order, and
\* every row of the result has a positive weight.
C28_QuartersThroughYearEnd ==
    (HoldingsRead /\ fn.file.exists) =>
        /\ ResultQuarters =
               [i \in 1..(LastOfLatestYear - EarliestDisclosed + 1) |->
                   QuarterLabel(YearOf(EarliestDisclosed + i - 1),
                                NumOf(EarliestDisclosed + i - 1))]
        /\ EachQuarterOnce
        /\ \A i \in 1..Len(fn.result.rows) : FPositive(fn.result.rows[i].weight)

\* C28 witness: the file discloses the second quarter of two successive
\* years, one of them with a row of weight 0; the result starts at the
\* first disclosure, and runs through the fourth quarter of the second year.
C28_Witness ==
    /\ HoldingsRead
    /\ DisclosedQuarters = {1, 5}
    /\ \E i \in 1..Len(fn.file.rows) : fn.file.rows[i].percent = Float(0)
    /\ Len(ResultQuarters) = 7
    /\ fn.result.rows[1].quarter = QuarterLabel(BaseYear, 2)
    /\ fn.result.rows[Len(fn.result.rows)].quarter = QuarterLabel(BaseYear + 1, 4)
----------------------------------------------------------------------------
(* The two composite series on their own: one call of                   *)
(* calculate_single_quarter_etf_pb_time_series (etf_pb_store) or of     *)
(* calculate_etf_pb_time_series (etf_pb_cal) over a store               *)

CompositeInit ==
    /\ now = InitNow
    /\ db \in CalStores
    /\ prov = NoProvider
    /\ last = NoCall
    /\ firstOut = NoOutput
    /\ fn \in [name : {"calculate_single_quarter_etf_pb_time_series"},
               quarter_data : QuarterHoldings,
               quarter_name : QuarterNames,
               result : {PendingSeries}]
              \cup [name : {"calculate_etf_pb_time_series"},
                    file : CalFiles,
                    result : {PendingSeries}]

ComputeTimeSeries ==
    /\ fn.name = "calculate_etf_pb_time_series"
    /\ fn.result = PendingSeries
    /\ fn' = [fn EXCEPT !.result =
                 calculate_etf_pb_time_series(db.daily_pb, fn.file, now)]
    /\ UNCHANGED <<now, prov, db, last, firstOut>>

CompositeNext == ComputeQuarter \/ ComputeTimeSeries

SpecComposite == CompositeInit /\ [][CompositeNext]_vars

TimeSeriesDone ==
    fn.name = "calculate_etf_pb_time_series" /\ fn.result # PendingSeries

\* The weights the call used: the holdings of the quarter, or the rows of
\* the quarter of the last row of the file as read.
WeightsUsed ==
    IF fn.name = "calculate_etf_pb_time_series"
    THEN LatestQuarterData(cal_read_etf_holdings(fn.file).rows)
    ELSE fn.quarter_data

\* The PB values of the constituents that contributed on date d: those of
\* the weights used whose stored PB on d is defined and positive.
ContributingPB(d) ==
    {PBOn(w.stock_code, d) : w \in {x \in Range(WeightsUsed) : HasPositivePB(x, d)}}

----------------------------------------------------------------------------
(* etf_pb_cal.py : the percentile rank of the latest composite PB *)

\* The analysis of the call reported a rank.
Reported == DisplayDone /\ fn.result.analysis.kind = "report"

\* The rank of the latest PB of a composite series of n points is between
\* 100/n and 100, and 100 exactly when no point of the series is above it.
RankOfLatest(series, analysis) ==
    /\ analysis.percentile_rank.kind = "value"
    /\ analysis.latest_pb = series[Len(series)].pb
    /\ FLeq(Rat(100, Len(series)), analysis.percentile_rank.value)
    /\ FLeq(analysis.percentile_rank.value, Float(100))
    /\ (analysis.percentile_rank.value = Float(100))
           <=> \A i \in 1..Len(series) : FLeq(series[i].pb, analysis.latest_pb)

\* C30: the percentile rank analyze_etf_pb_time_series reports for the
\* latest composite PB is at least 100/n and at most 100, n being the number
\* of points of the composite series, and it is 100 exactly when the latest
\* PB is the maximum of the series.
C30_RankCountsLatest ==
    Reported =>
        RankOfLatest(calculate_etf_pb_time_series(db.daily_pb, fn.file, now).rows,
                     fn.result.analysis)

\* The series of the call has n points and its latest PB is below an
\* earlier one.
LatestBelowEarlier(series, n) ==
    /\ Len(series) = n
    /\ \E i \in 1..n : FLess(series[n].pb, series[i].pb)

\* C30 witness: a series of two points whose latest PB is the lower one was
\* reported with rank 100/2.
C30_Witness ==
    /\ Reported
    /\ LatestBelowEarlier(
           calculate_etf_pb_time_series(db.daily_pb, fn.file, now).rows, 2)
    /\ fn.result.analysis.percentile_rank = Value(Float(50))

====
